---- MODULE Spec2Model ----
(***************************************************************************)
(* Model of the MCP skill framework: the Skill Manager with its two        *)
(* stores (filesystem skill tree, SQLite Skills Store) and the sandboxed   *)
(* Code Executor.                                                          *)
(*                                                                         *)
(*   Spec      the Skill Manager: save_skill, the background durable       *)
(*             write (_persist_to_database / SkillsDatabase.save_skill),   *)
(*             hydrate_from_database and list_skills.                      *)
(*   SpecExec  the Code Executor: execute, its two backends, the harness   *)
(*             the submitted code is wrapped in, and _parse_result.        *)
(*   SpecRuntime  the Routing Runtime: register_servers, clear, call and    *)
(*             the connector whose connections it is given.                *)
(*   SpecScan  the dependency scan of the Skill Manager                     *)
(*             (_extract_dependencies).                                    *)
(*   SpecStore the Skills Store on its own (SkillsDatabase): save_skill,    *)
(*             get_skill, get_all_skills, delete_skill, get_agent_stats.   *)
(*   SpecSkills  the Skill Manager with the failures of single skills:      *)
(*             save_skill and its scheduling, hydrate_from_database,       *)
(*             list_skills; SpecSaves is save_skill and its durable        *)
(*             writes alone, under the fairness of their scheduling.       *)
(*   SpecApi   MCPApi.add_mcp_server, start and stop with the              *)
(*             connector's sessions; SpecLibraries adds                    *)
(*             generate_libraries.                                         *)
(*   SpecHook  the global dispatch hook mcp_call and the MCPRuntime         *)
(*             objects that install themselves in it.                      *)
(***************************************************************************)
EXTENDS Integers, Sequences, FiniteSets, TLC

\* ---------------------------------------------------------------- bounds
MaxSaves == 2
MaxCodeLen == 2
MaxCalls == 2
MaxLines == 2
MaxWrites == 2
MaxSkillSaves == 2
\* The most runtimes constructed in one process.
MaxRuntimes == 2
\* The most connect_all calls made on one MCPApi.
MaxConnects == 2

\* ------------------------------------------------------------ value sets
Agent == "agent"
OtherAgent == "other"
Categories == {"c", "d"}
\* The (code, name, category, persist_to_db) arguments save_skill is called
\* with: one skill, the same (category, name) with other code, the same
\* name in another category without a durable write, and another name.
SaveInputs ==
  { <<"p", "f", "c", TRUE>>, <<"q", "f", "c", TRUE>>, <<"q", "f", "d", FALSE>>,
    <<"q", "g", "d", TRUE>> }
NoCategory == "-"

\* ORDER BY category, skill_name compares text; the model's texts are
\* single letters and Rank gives their alphabetical position.
Rank(s) ==
  CASE s = "c" -> 1 [] s = "d" -> 2 [] s = "f" -> 3 [] s = "g" -> 4 [] s = "h" -> 5
    [] OTHER -> 0

VARIABLES
  fs,            \* skills_dir: <<category, name>> -> skill directory
  store,         \* skills table: <<agent_name, skill_name>> -> row
  clock,         \* the wall clock read by datetime.utcnow()
  db_initialized,\* SkillManager._db_initialized
  calls,         \* the save_skill calls that have returned, in call order
  tasks,         \* per call: the background _persist_to_database task
  surfaced,      \* calls whose caller saw an exception of the durable write
  hpc,           \* position of the running hydrate_from_database
  hskills,       \* hydrate: the local `skills` fetched from the Store
  hret,          \* the value a hydrate_from_database call has just returned
  hraceCommit,   \* a durable write committed after the current hydrate's fetch
  listed,        \* the value a list_skills call has just returned
  use_docker,    \* CodeExecutor.use_docker
  docker_available, \* CodeExecutor.docker_available
  telemetry,     \* CodeExecutor.telemetry is set
  epc,           \* position of the running execute call
  emode,         \* execute: the backend chosen for the call ("" before a call)
  ecode,         \* execute: the submitted code
  etemp,         \* execute: the temporary source file exists
  eoutcome,      \* execute: how the backend ended
  ereport,       \* execute: the local `result`, returned at the end
  rheap,         \* the dictionaries of connections: identity -> server names
  rservers,      \* MCPRuntime.servers: the dictionary it refers to
  rloop,         \* MCPRuntime._event_loop is set
  rcalls,        \* the MCPRuntime.call invocations, in the order they began
  dcode,         \* _extract_dependencies: the code scanned
  dscanned,      \* _extract_dependencies has returned
  ddeps,         \* _extract_dependencies: the list returned
  sdb,           \* the skills table with all its columns: key -> record
  sclock,        \* the wall clock SkillsDatabase.save_skill reads
  ssave,         \* per caller: the SkillsDatabase.save_skill call it runs
  sret,          \* the Store operation that has just ended and its result
  ktree,         \* skills_dir with all the files of a skill directory
  kstore,        \* the skills table read by hydrate_from_database
  ktasks,        \* the durable writes save_skill has scheduled
  kret,          \* the Skill Manager call that has just ended and its outcome
  astarted,      \* MCPApi._started
  aservers,      \* MCPConnector.servers: the names registered, in order
  aconnections,  \* MCPConnector.connections: the names that have a session
  astack,        \* MCPConnector.exit_stack and the sessions entered in it
  asessions,     \* the sessions that are open in the process
  aepoch,        \* the number of connect_all calls made so far
  ashared,       \* MCPRuntime.servers is the connector's connections
  aloop,         \* MCPRuntime._event_loop is set
  alog,          \* the connect_all / disconnect_all calls of start and stop
  aret,          \* the MCPApi call that has just ended and its outcome
  ginst,         \* the number of MCPRuntime objects constructed
  ghook,         \* runtime._runtime_instance: 0 is None
  gservers,      \* per MCPRuntime: the names in its servers
  gloop,         \* per MCPRuntime: _event_loop is set
  gret           \* the mcp_call that has just ended and its outcome

mvars == <<fs, store, clock, db_initialized, calls, tasks, surfaced,
           hpc, hskills, hret, hraceCommit, listed>>

evars == <<use_docker, docker_available, telemetry, epc, emode, ecode, etemp,
           eoutcome, ereport>>

rvars == <<rheap, rservers, rloop, rcalls>>

dvars == <<dcode, dscanned, ddeps>>

svars == <<sdb, sclock, ssave, sret>>

kvars == <<ktree, kstore, ktasks, kret>>

avars == <<astarted, aservers, aconnections, astack, asessions, aepoch,
           ashared, aloop, alog, aret>>

gvars == <<ginst, ghook, gservers, gloop, gret>>

vars == <<mvars, evars, rvars, dvars, svars, kvars, avars, gvars>>

\* What the actions of one component leave alone.
nonManagerVars == <<evars, rvars, dvars, svars, kvars, avars, gvars>>
nonExecutorVars == <<mvars, rvars, dvars, svars, kvars, avars, gvars>>
nonRuntimeVars == <<mvars, evars, dvars, svars, kvars, avars, gvars>>
nonScanVars == <<mvars, evars, rvars, svars, kvars, avars, gvars>>
nonStoreVars == <<mvars, evars, rvars, dvars, kvars, avars, gvars>>
nonSkillsVars == <<mvars, evars, rvars, dvars, svars, avars, gvars>>
nonApiVars == <<mvars, evars, rvars, dvars, svars, kvars, gvars>>
nonHookVars == <<mvars, evars, rvars, dvars, svars, kvars, avars>>

\* ------------------------------------------------------------- functions
Put(f, k, v) == [x \in (DOMAIN f) \cup {k} |-> IF x = k THEN v ELSE f[x]]

EmptyTree == << >>

\* ------------------------------------------------- _write_to_filesystem
\* skill_dir = skills_dir / category / name; main.py, README.md, .meta.json
\* and __init__.py are (over)written.  The directory is modelled by the
\* code of main.py and the name/category of the sidecar.
SkillDir(name, category, code) ==
  [code |-> code, hasMeta |-> TRUE, name |-> name, category |-> category]

WriteToFilesystemNoSidecar(tree, name, category, code) ==
  Put(tree, <<category, name>>,
      [code |-> code, hasMeta |-> FALSE, name |-> "", category |-> ""])

WriteToFilesystem(tree, name, category, code) ==
  Put(tree, <<category, name>>, SkillDir(name, category, code))

\* ----------------------------------------------------------- list_skills
\* The category directories scanned: the one given when it exists, else all.
CategoryDirs(tree, category) ==
  IF category # NoCategory
    THEN {c \in {category} : \E p \in DOMAIN tree : p[1] = c}
    ELSE {p[1] : p \in DOMAIN tree}

RECURSIVE ScanPaths(_, _)
ScanPaths(tree, paths) ==
  IF paths = {} THEN << >>
  ELSE LET p == CHOOSE q \in paths :
                  \A r \in paths : <<Rank(q[1]), Rank(q[2])>> = <<Rank(r[1]), Rank(r[2])>>
                                   \/ Rank(q[1]) < Rank(r[1])
                                   \/ (Rank(q[1]) = Rank(r[1]) /\ Rank(q[2]) < Rank(r[2]))
       IN  (IF tree[p].hasMeta
              THEN <<[name |-> tree[p].name, category |-> tree[p].category, path |-> p]>>
              ELSE << >>)
           \o ScanPaths(tree, paths \ {p})

ListSkills(tree, category) ==
  ScanPaths(tree, {p \in DOMAIN tree : p[1] \in CategoryDirs(tree, category)})

\* ------------------------------------------------------ SkillsDatabase
Row(category, code, created, updated) ==
  [category |-> category, code |-> code, created_at |-> created, updated_at |-> updated]

\* get_skill: SELECT ... WHERE agent_name = ? AND skill_name = ?
GetSkillExists(db, agent, name) == <<agent, name>> \in DOMAIN db

RECURSIVE SortRows(_, _)
SortRows(db, keys) ==
  IF keys = {} THEN << >>
  ELSE LET k == CHOOSE q \in keys :
                  \A r \in keys :
                     \/ q = r
                     \/ Rank(db[q].category) < Rank(db[r].category)
                     \/ (Rank(db[q].category) = Rank(db[r].category)
                         /\ Rank(q[2]) <= Rank(r[2]))
       IN  <<[skill_name |-> k[2], category |-> db[k].category, code |-> db[k].code]>>
           \o SortRows(db, keys \ {k})

\* get_all_skills: SELECT * WHERE agent_name = ? ORDER BY category, skill_name
GetAllSkillsUnfiltered(db, agent) == SortRows(db, DOMAIN db)

GetAllSkills(db, agent) == SortRows(db, {k \in DOMAIN db : k[1] = agent})

\* The UPDATE branch of save_skill: created_at is not in the SET list.
DbUpdate(db, agent, name, category, code, now) ==
  IF <<agent, name>> \in DOMAIN db
    THEN Put(db, <<agent, name>>,
             Row(category, code, db[<<agent, name>>].created_at, now))
    ELSE db

\* The INSERT branch of save_skill: created_at = updated_at = now.
DbInsert(db, agent, name, category, code, now) ==
  Put(db, <<agent, name>>, Row(category, code, now, now))

\* ---------------------------------------------------------------- seeds
\* Rows of earlier sessions carry a time before this session's clock.
SeedTime == 0

\* What the skills directory and the database file may hold when the
\* manager is constructed: nothing, or the leftovers of earlier sessions.
\* A directory left by hand: main.py only, no sidecar.
OldTree ==
  Put(EmptyTree, <<"d", "g">>,
      [code |-> "q", hasMeta |-> FALSE, name |-> "", category |-> ""])

OthersStore == DbInsert(<< >>, OtherAgent, "f", "d", "q", SeedTime)

EarlierStore == DbInsert(OthersStore, Agent, "f", "c", "p", SeedTime)

Seeds == { <<OldTree, OthersStore>>, <<OldTree, EarlierStore>> }

\* No hydrate_from_database call has just returned.
NoReturn == [returned |-> FALSE, count |-> 0]

\* No list_skills call has just returned.
NoListing == [returned |-> FALSE, skills |-> << >>]

\* A background task: its position, the locals `now` and `existing` of
\* SkillsDatabase.save_skill, and the exception logger.error recorded.
NoTask == [st |-> "none", now |-> 0, existing |-> FALSE, error |-> ""]

\* ------------------------------------------------- execution reports
\* "error": None, an error dictionary (type, line_number; 0 stands for a
\* null line_number) or, in the reports the backends build, a string.
ErrNull == [kind |-> "null", type |-> "", line_number |-> 0]
ErrDetail(type, line) == [kind |-> "detail", type |-> type, line_number |-> line]
ErrString(msg) == [kind |-> "string", type |-> msg, line_number |-> 0]

\* The fields of a report other than its stdout.  `keys` tells which
\* dictionary it is: "harness" has success, return_value, stdout, stderr,
\* error, execution_time_ms, exit_code; "written" is the dictionary
\* os_write_report spells out.
Core(keys, success, return_value, error, exit_code) ==
  [keys |-> keys, success |-> success, return_value |-> return_value,
   error |-> error, exit_code |-> exit_code]

NoCore == Core("", FALSE, "None", ErrNull, "0")

\* Text on a stream, cut into pieces: the two marker lines, other text,
\* and a JSON object (json_open carries the fields, the pieces up to
\* json_close are the text of its "stdout" string).
Tok(kind, core) == [kind |-> kind, core |-> core]
StartMarker == Tok("start", NoCore)
EndMarker == Tok("end", NoCore)
Text == Tok("text", NoCore)

Report(core, stdout) ==
  [keys |-> core.keys, success |-> core.success,
   return_value |-> core.return_value, stdout |-> stdout,
   error |-> core.error, exit_code |-> core.exit_code]

CoreOf(report) ==
  Core(report.keys, report.success, report.return_value, report.error,
       report.exit_code)

NoReport == Report(NoCore, << >>)

\* The dictionaries that can hold connections: the one MCPRuntime.__init__
\* makes, MCPConnector.connections, and a map a caller builds and hands to
\* register_servers.
DictIds == {"own", "conn", "map"}

\* The runtime after MCPRuntime(): no servers, no event loop.
RuntimeAtRest ==
  /\ rheap = [d \in DictIds |-> {}]
  /\ rservers = "own"
  /\ rloop = FALSE
  /\ rcalls = << >>

\* No _extract_dependencies call: nothing to scan, nothing returned.
ScanAtRest ==
  /\ dcode = << >>
  /\ dscanned = FALSE
  /\ ddeps = << >>

\* The callers that may run SkillsDatabase.save_skill at the same time.
Savers == {1, 2}

\* A caller that runs no save_skill; otherwise the arguments and the
\* locals `now` and `existing` of the call.
NoSave == [st |-> "idle", args |-> << >>, now |-> 0, existing |-> FALSE]

\* No Store operation has ended yet.
NoResult == [op |-> "", agent |-> "", name |-> "", value |-> << >>]

\* The Store of a new database file, with no operation running.
StoreAtRest ==
  /\ sdb = << >>
  /\ sclock = 1
  /\ ssave = [i \in Savers |-> NoSave]
  /\ sret = NoResult

\* No call has ended yet; otherwise the operation, its arguments, the
\* exception it raised ("" when it returned) and the value it returned.
Outcome(op, args, raised, value) ==
  [op |-> op, args |-> args, raised |-> raised, value |-> value]
NoOutcome == Outcome("", << >>, "", << >>)

\* The Skill Manager of a new skills directory and database file, with no
\* durable write scheduled.
SkillsAtRest ==
  /\ ktree = << >>
  /\ kstore = << >>
  /\ ktasks = << >>
  /\ kret = NoOutcome

\* connector.exit_stack: None, or the stack of one connect_all call with
\* the sessions entered in it.
NoStack == [present |-> FALSE, entered |-> {}]

\* MCPApi after __init__ with no server added.
ApiAtRest ==
  /\ astarted = FALSE
  /\ aservers = << >>
  /\ aconnections = {}
  /\ astack = NoStack
  /\ asessions = {}
  /\ aepoch = 0
  /\ ashared = FALSE
  /\ aloop = FALSE
  /\ alog = << >>
  /\ aret = NoOutcome

\* The runtime module after import: no MCPRuntime constructed.
HookAtRest ==
  /\ ginst = 0
  /\ ghook = 0
  /\ gservers = << >>
  /\ gloop = << >>
  /\ gret = NoOutcome

\* The executor at rest.
ExecutorAtRest ==
  /\ epc = "idle"
  /\ emode = ""
  /\ ecode = << >>
  /\ etemp = FALSE
  /\ eoutcome = ""
  /\ ereport = NoReport

\* ------------------------------------------------------------------ Init
\* The Code Executor does not take part in Spec.
Init ==
  /\ \E seed \in Seeds : fs = seed[1] /\ store = seed[2]
  /\ clock = 1
  /\ db_initialized = FALSE
  /\ calls = << >>
  /\ tasks = << >>
  /\ surfaced = {}
  /\ hpc = "idle"
  /\ hskills = << >>
  /\ hret = NoReturn
  /\ hraceCommit = FALSE
  /\ listed = NoListing
  /\ use_docker = FALSE
  /\ docker_available = FALSE
  /\ telemetry = FALSE
  /\ ExecutorAtRest
  /\ RuntimeAtRest
  /\ ScanAtRest
  /\ StoreAtRest
  /\ SkillsAtRest
  /\ ApiAtRest
  /\ HookAtRest

\* ------------------------------------------------------------ save_skill
\* Whether the call schedules a durable write (skill_manager.py:162).
SchedulesWriteAlways(persist_to_db) == TRUE

SchedulesWrite(persist_to_db) == persist_to_db

\* hydrate_from_database owns the tree while it rebuilds it: callers do not
\* run save_skill against the same tree meanwhile (hpc = "idle").
SaveSkill(code, name, category, persist_to_db) ==
  /\ UNCHANGED nonManagerVars
  /\ Len(calls) < MaxSaves
  /\ hpc = "idle"
  /\ fs' = WriteToFilesystem(fs, name, category, code)
  /\ calls' = Append(calls, [name |-> name, category |-> category, code |-> code,
                             persist_to_db |-> persist_to_db])
  /\ tasks' = Append(tasks, IF SchedulesWrite(persist_to_db)
                              THEN [NoTask EXCEPT !.st = "scheduled"]
                              ELSE NoTask)
  /\ listed' = NoListing
  /\ hret' = NoReturn
  /\ UNCHANGED <<store, clock, db_initialized, surfaced, hpc, hskills,
                 hraceCommit>>

\* ------------------------------------------------ _persist_to_database
\* The except clause of _persist_to_database: the failure is logged (the
\* task ends "failed") and nothing reaches the caller of save_skill.
OnPersistFailureRaise(t) == surfaced \cup {t}

OnPersistFailure(t) == surfaced

\* The task up to the write of SkillsDatabase.save_skill:
\*   await self.initialize()                       (may raise)
\*   now = datetime.utcnow()
\*   existing = await self.get_skill(agent_name, skill_name)
\* initialize only sets _db_initialized, so the three are one step.
PersistStart(t, ok) ==
  /\ UNCHANGED nonManagerVars
  /\ t \in DOMAIN tasks
  /\ tasks[t].st = "scheduled"
  /\ IF ok
       THEN /\ db_initialized' = TRUE
            /\ tasks' = [tasks EXCEPT ![t] =
                            [st |-> "checked", now |-> clock,
                             existing |-> GetSkillExists(store, Agent, calls[t].name),
                             error |-> ""]]
            /\ clock' = clock + 1
            /\ UNCHANGED surfaced
       ELSE /\ tasks' = [tasks EXCEPT ![t].st = "failed",
                                      ![t].error = "OperationalError"]
            /\ surfaced' = OnPersistFailure(t)
            /\ UNCHANGED <<db_initialized, clock>>
  /\ listed' = NoListing
  /\ hret' = NoReturn
  /\ UNCHANGED <<fs, store, calls, hpc, hskills, hraceCommit>>

\* UPDATE or INSERT, then commit.  An INSERT on a key another write has
\* inserted meanwhile violates the primary key and raises; so does any
\* other failure of the database (ok = FALSE).  The locals end with the
\* task.
PersistWrite(t, ok) ==
  /\ UNCHANGED nonManagerVars
  /\ t \in DOMAIN tasks
  /\ tasks[t].st = "checked"
  /\ LET c == calls[t]
         conflict == ~tasks[t].existing /\ GetSkillExists(store, Agent, c.name)
     IN  IF ok /\ ~conflict
           THEN /\ store' = IF tasks[t].existing
                              THEN DbUpdate(store, Agent, c.name, c.category, c.code,
                                            tasks[t].now)
                              ELSE DbInsert(store, Agent, c.name, c.category, c.code,
                                            tasks[t].now)
                /\ tasks' = [tasks EXCEPT ![t] = [NoTask EXCEPT !.st = "done"]]
                /\ hraceCommit' = (hraceCommit \/ hpc = "fetched")
                /\ UNCHANGED surfaced
           ELSE /\ tasks' = [tasks EXCEPT ![t] =
                            [NoTask EXCEPT !.st = "failed",
                                           !.error = IF conflict THEN "IntegrityError"
                                                                 ELSE "OperationalError"]]
                /\ surfaced' = OnPersistFailure(t)
                /\ UNCHANGED <<store, hraceCommit>>
  /\ listed' = NoListing
  /\ hret' = NoReturn
  /\ UNCHANGED <<fs, clock, db_initialized, calls, hpc, hskills>>

\* ------------------------------------------------ hydrate_from_database
\* shutil.rmtree(self.skills_dir); self.skills_dir.mkdir(...)
ClearTreeKeep(tree) == tree

ClearTree(tree) == EmptyTree

\* await self.initialize(), then the tree is cleared.  When initialize
\* raises, hydrate raises before touching the tree.
HydrateStart(ok) ==
  /\ UNCHANGED nonManagerVars
  /\ hpc = "idle"
  /\ IF ok
       THEN /\ db_initialized' = TRUE
            /\ fs' = ClearTree(fs)
            /\ hpc' = "cleared"
       ELSE UNCHANGED <<db_initialized, fs, hpc>>
  /\ listed' = NoListing
  /\ hret' = NoReturn
  /\ UNCHANGED <<store, clock, calls, tasks, surfaced, hskills, hraceCommit>>

\* skills = await self.db.get_all_skills(self.agent_name); when it raises,
\* hydrate raises and leaves the cleared tree.
HydrateFetch(ok) ==
  /\ UNCHANGED nonManagerVars
  /\ hpc = "cleared"
  /\ IF ok
       THEN /\ hskills' = GetAllSkills(store, Agent)
            /\ hpc' = "fetched"
       ELSE /\ hpc' = "idle"
            /\ UNCHANGED hskills
  /\ listed' = NoListing
  /\ hret' = NoReturn
  /\ UNCHANGED <<fs, store, clock, db_initialized, calls, tasks, surfaced,
                 hraceCommit>>

RECURSIVE WriteAll(_, _)
WriteAll(tree, skills) ==
  IF skills = << >> THEN tree
  ELSE WriteAll(WriteToFilesystem(tree, Head(skills).skill_name,
                                  Head(skills).category, Head(skills).code),
                Tail(skills))

\* The value hydrate_from_database returns: len(skills).
HydrateCount(skills) == Len(skills)

\* for skill in skills: self._write_to_filesystem(...); return len(skills).
\* The locals end with the call.
HydrateWrite ==
  /\ UNCHANGED nonManagerVars
  /\ hpc = "fetched"
  /\ fs' = WriteAll(fs, hskills)
  /\ hret' = [returned |-> TRUE, count |-> HydrateCount(hskills)]
  /\ hpc' = "idle"
  /\ hskills' = << >>
  /\ hraceCommit' = FALSE
  /\ listed' = NoListing
  /\ UNCHANGED <<store, clock, db_initialized, calls, tasks, surfaced>>

\* ----------------------------------------------------------- list_skills
ListSkillsCall(category) ==
  /\ UNCHANGED nonManagerVars
  /\ listed' = [returned |-> TRUE, skills |-> ListSkills(fs, category)]
  /\ hret' = NoReturn
  /\ UNCHANGED <<fs, store, clock, db_initialized, calls, tasks, surfaced,
                 hpc, hskills, hraceCommit>>

Next ==
  \/ \E a \in SaveInputs : SaveSkill(a[1], a[2], a[3], a[4])
  \/ \E t \in 1..MaxSaves, ok \in BOOLEAN : PersistStart(t, ok)
  \/ \E t \in 1..MaxSaves, ok \in BOOLEAN : PersistWrite(t, ok)
  \/ \E ok \in BOOLEAN : HydrateStart(ok)
  \/ \E ok \in BOOLEAN : HydrateFetch(ok)
  \/ HydrateWrite
  \/ \E category \in Categories \cup {NoCategory} : ListSkillsCall(category)

Spec == Init /\ [][Next]_vars

\* ======================================================================
\* The Code Executor
\* ======================================================================
\* The submitted code is a sequence of statements, one per line:
\*   set_result       result = 4            set_output    output = 5
\*   set_result_none  result = None         set_sentinel  __result__ = 6
\*   print            print("x")
\*   print_start      print("__RESULT_START__")
\*   print_end        print("__RESULT_END__")
\*   os_write_report  os.write(1, b'__RESULT_START__{"success": true,
\*                      "return_value": 1, "error": {"type": "X"},
\*                      "exit_code": 1}__RESULT_END__')
\*   os_write_text    os.write(1, b'x')
\*   raise            1/0                   exit          sys.exit(1)
\*   hang             while True: pass
\*   syntax_error     def f(
\*   triple_quote     result = '''abc'''
\*   newline_escape   result = "a\nb"   (backslash, n between the quotes)
\*   trailing_backslash  x = 1 \       (a backslash ending the line)
\*   mcp_call         result = mcp_call('s', 'op', {})
\*   wrapper_call     from mcp_skill_framework.runtime import mcp_call as f;
\*                      result = f('s', 'op', {})
\*                    (what a generated server module does when called)
Statements ==
  { "set_result", "set_result_none", "set_output", "set_sentinel",
    "print", "print_start", "print_end", "os_write_report", "os_write_text",
    "raise", "exit", "hang", "syntax_error", "triple_quote", "newline_escape",
    "trailing_backslash", "mcp_call", "wrapper_call" }

RECURSIVE SeqsUpTo(_, _)
SeqsUpTo(S, n) ==
  IF n = 0 THEN { << >> }
  ELSE LET shorter == SeqsUpTo(S, n - 1)
       IN  shorter \cup { Append(c, x) : c \in shorter, x \in S }

CodeStrings == SeqsUpTo(Statements, MaxCodeLen)

Stmts(code) == { code[i] : i \in DOMAIN code }

\* ------------------------------------------- the harness (_create_wrapper)
\* return_value = exec_namespace.get('__result__'); if it is None, the
\* first of result, output, answer, data that is in the namespace.
ResultVars == <<"result", "output", "answer", "data">>

RECURSIVE FirstVar(_, _)
FirstVar(ns, i) ==
  IF i > Len(ResultVars) THEN "None"
  ELSE IF ResultVars[i] \in DOMAIN ns THEN ns[ResultVars[i]]
  ELSE FirstVar(ns, i + 1)

FirstFound(ns) ==
  LET sentinel == IF "__result__" \in DOMAIN ns THEN ns["__result__"] ELSE "None"
  IN  IF sentinel # "None" THEN sentinel ELSE FirstVar(ns, 1)

\* The success branch of the harness.
SuccessReport(ns, captured) ==
  Report(Core("harness", TRUE, FirstFound(ns), ErrNull, "0"), captured)

\* The except branch of the harness.
ErrorReport(type, line, captured) ==
  Report(Core("harness", FALSE, "None", ErrDetail(type, line), "1"), captured)

\* print(json.dumps(result, default=str)): the captured output of the code
\* is the text of the "stdout" string.
JsonDumps(report) ==
  <<Tok("json_open", CoreOf(report))>> \o report.stdout \o <<Tok("json_close", NoCore)>>

\* The three print calls that end the harness.
Emit(report) == <<StartMarker>> \o JsonDumps(report) \o <<EndMarker>>

WrittenReport ==
  <<StartMarker, Tok("json_open", Core("written", TRUE, "1", ErrDetail("X", 0), "1")),
    Tok("json_close", NoCore), EndMarker>>

\* The code is pasted between ''' and ''' in the wrapper script, the script
\* is not a raw string: a ''' in the code ends the literal early and the
\* script no longer compiles; a backslash-n becomes a line break inside
\* the string literal of the code, which then no longer compiles.
WrapperCompiles(code) == "triple_quote" \notin Stmts(code)

\* A backslash ending a line joins it, in that literal, with what follows:
\* with the next line of the code, which then no longer compiles, or, on
\* the last line, with the end of the literal, which leaves a line that
\* compiles.
CodeCompiles(code) ==
  /\ Stmts(code) \cap {"syntax_error", "newline_escape"} = {}
  /\ \A i \in 1..(Len(code) - 1) : code[i] # "trailing_backslash"

\* The line the traceback frame of '<agent_code>' reports for statement i:
\* the literal handed to compile starts with a line break.
LineOf(i) == i + 1

\* The state of the runtime module in a process: whether _runtime_instance
\* is set and which servers the instance has registered.
NoRuntime == [instance |-> FALSE, servers |-> {}]

\* The host process after MCPRuntime() and register_servers({"s": ...}).
HostRuntime == [instance |-> TRUE, servers |-> {"s"}]

\* The answer of server s's session, normalized by _async_call.
Answer == "answer"

\* mcp_call(server, tool, params) in a process whose runtime module is in
\* state `runtime`.
McpCall(runtime, server) ==
  IF ~runtime.instance THEN [raises |-> "RuntimeError", value |-> "None"]
  ELSE IF server \notin runtime.servers
    THEN [raises |-> "ValueError", value |-> "None"]
  ELSE [raises |-> "", value |-> Answer]

\* The process that runs the wrapper script imports the runtime module
\* anew, and nothing in the script makes an MCPRuntime or hands the host's
\* one over.
WrapperRuntime == NoRuntime

\* The names exec_namespace holds when the code starts.
ExecNamespace == {"__name__", "__builtins__"}

\* What running one statement does, besides the writes to the namespace
\* and the streams: the exception it raises ("" for none) and, for a
\* dispatch call, the value it returns.
RunStatement(s) ==
  CASE s = "raise" -> [raises |-> "ZeroDivisionError", value |-> "None"]
    [] s = "mcp_call" ->
         IF "mcp_call" \in ExecNamespace THEN McpCall(WrapperRuntime, "s")
         ELSE [raises |-> "NameError", value |-> "None"]
    [] s = "wrapper_call" -> McpCall(WrapperRuntime, "s")
    [] OTHER -> [raises |-> "", value |-> "None"]

RaisedBy(s) == RunStatement(s).raises

\* exec(compile(...), exec_namespace): the statements run in order up to
\* the first that raises, exits or never ends (0: none does).
Stops == {"exit", "hang"} \cup {s \in Statements : RaisedBy(s) # ""}

FirstStop(code) ==
  IF \E i \in DOMAIN code : code[i] \in Stops
    THEN CHOOSE i \in DOMAIN code :
           /\ code[i] \in Stops
           /\ \A j \in 1..(i - 1) : code[j] \notin Stops
    ELSE 0

\* exec_namespace after the first n statements have run.
RECURSIVE Namespace(_, _)
Namespace(code, n) ==
  IF n = 0 THEN << >>
  ELSE LET ns == Namespace(code, n - 1)
           s == code[n]
       IN  CASE s = "set_result" -> Put(ns, "result", "4")
             [] s = "set_result_none" -> Put(ns, "result", "None")
             [] s = "set_output" -> Put(ns, "output", "5")
             [] s = "set_sentinel" -> Put(ns, "__result__", "6")
             [] s = "triple_quote" -> Put(ns, "result", "abc")
             [] s = "newline_escape" -> Put(ns, "result", "a b")
             [] s \in {"mcp_call", "wrapper_call"} ->
                  Put(ns, "result", RunStatement(s).value)
             [] OTHER -> ns

\* stdout_capture after the first n statements have run.
RECURSIVE Captured(_, _)
Captured(code, n) ==
  IF n = 0 THEN << >>
  ELSE LET c == Captured(code, n - 1)
           s == code[n]
       IN  CASE s = "print" -> Append(c, Text)
             [] s = "print_start" -> Append(c, StartMarker)
             [] s = "print_end" -> Append(c, EndMarker)
             [] OTHER -> c

\* What the first n statements have written to file descriptor 1, which
\* the redirection of sys.stdout does not capture.
RECURSIVE Written(_, _)
Written(code, n) ==
  IF n = 0 THEN << >>
  ELSE Written(code, n - 1) \o
       (CASE code[n] = "os_write_report" -> WrittenReport
          [] code[n] = "os_write_text" -> <<Text>>
          [] OTHER -> << >>)

ExecCode(code) ==
  LET k == FirstStop(code)
      n == IF k = 0 THEN Len(code) ELSE k - 1
      ns == Namespace(code, n)
      captured == Captured(code, n)
      raw == Written(code, n)
  IN  IF k = 0
        THEN [end |-> "exited", status |-> "0",
              out |-> raw \o Emit(SuccessReport(ns, captured))]
      ELSE IF RaisedBy(code[k]) # ""
        THEN [end |-> "exited", status |-> "0",
              out |-> raw \o Emit(ErrorReport(RaisedBy(code[k]), LineOf(k), captured))]
      ELSE IF code[k] = "exit"
        THEN [end |-> "exited", status |-> "1", out |-> raw]
      ELSE [end |-> "hang", status |-> "", out |-> raw]

\* What the process running the wrapper script does: how it ends, its exit
\* status and what it wrote to its standard output.
RunWrapper(code) ==
  IF ~WrapperCompiles(code)
    THEN [end |-> "exited", status |-> "1", out |-> << >>]
  ELSE IF ~CodeCompiles(code)
    THEN [end |-> "exited", status |-> "0",
          out |-> Emit(ErrorReport("SyntaxError", 0, << >>))]
  ELSE ExecCode(code)

\* ----------------------------------------------------------- _parse_result
\* output.find(marker): the first position of the marker, 0 when absent.
Find(output, kind) ==
  IF \E i \in DOMAIN output : output[i].kind = kind
    THEN CHOOSE i \in DOMAIN output :
           /\ output[i].kind = kind
           /\ \A j \in 1..(i - 1) : output[j].kind # kind
    ELSE 0

\* output[start_idx + len(start_marker):end_idx]
Between(output, start_idx, end_idx) ==
  IF end_idx <= start_idx + 1 THEN << >>
  ELSE SubSeq(output, start_idx + 1, end_idx - 1)

\* json.loads accepts exactly one complete JSON document.
JsonDecodes(text) ==
  /\ Len(text) >= 2
  /\ text[1].kind = "json_open"
  /\ text[Len(text)].kind = "json_close"
  /\ \A i \in 2..(Len(text) - 1) : text[i].kind \in {"start", "end", "text"}

JsonLoads(text) == Report(text[1].core, SubSeq(text, 2, Len(text) - 1))

\* The reports _parse_result builds itself; the raw output goes under
\* "stdout".
SynthReportWithoutOutput(type, output) ==
  Report(Core("harness", FALSE, "None", ErrDetail(type, 0), "1"), << >>)

SynthReport(type, output) ==
  Report(Core("harness", FALSE, "None", ErrDetail(type, 0), "1"), output)

ParseResult(output) ==
  LET start_idx == Find(output, "start")
      end_idx == Find(output, "end")
      json_str == Between(output, start_idx, end_idx)
  IN  IF start_idx = 0 \/ end_idx = 0 THEN SynthReport("ParseError", output)
      ELSE IF JsonDecodes(json_str) THEN JsonLoads(json_str)
      ELSE SynthReport("JSONDecodeError", output)

\* ------------------------------------------------------------- backends
\* {'success': False, 'result': None, 'error': <text>}
ShortReport(msg) ==
  Report(Core("short", FALSE, "absent", ErrString(msg), "absent"), << >>)

\* {'success': False, 'result': None, 'stdout': ..., 'stderr': ...,
\*  'error': "Container error: ..."}
ContainerReport ==
  Report(Core("container", FALSE, "absent", ErrString("Container error"), "absent"),
         << >>)

\* CodeExecutor.__init__ and _init_docker: Docker is used when asked for,
\* the daemon answers the ping, and the image is there or can be built.
InitDocker(enabled, ping_ok, image_found, dockerfile_exists, build_ok) ==
  enabled /\ ping_ok /\ (image_found \/ (dockerfile_exists /\ build_ok))

\* The Skill Manager does not take part in SpecExec.
ManagerAtRest ==
  /\ fs = EmptyTree
  /\ store = << >>
  /\ clock = 1
  /\ db_initialized = FALSE
  /\ calls = << >>
  /\ tasks = << >>
  /\ surfaced = {}
  /\ hpc = "idle"
  /\ hskills = << >>
  /\ hret = NoReturn
  /\ hraceCommit = FALSE
  /\ listed = NoListing

InitExec ==
  /\ ManagerAtRest
  /\ use_docker \in BOOLEAN
  /\ \E ping_ok, image_found, dockerfile_exists, build_ok \in BOOLEAN :
       docker_available =
         InitDocker(use_docker, ping_ok, image_found, dockerfile_exists, build_ok)
  /\ telemetry \in BOOLEAN
  /\ ExecutorAtRest
  /\ RuntimeAtRest
  /\ ScanAtRest
  /\ StoreAtRest
  /\ SkillsAtRest
  /\ ApiAtRest
  /\ HookAtRest

\* execute is called: the backend is chosen by docker_available and the
\* wrapper script is created.  A call leaves nothing behind in the
\* executor that a later call reads, so one call per behaviour is followed.
Execute ==
  /\ epc = "idle"
  /\ epc' = "wrapped"
  /\ emode' = IF docker_available THEN "docker" ELSE "subprocess"
  /\ ecode' \in CodeStrings
  /\ etemp' = FALSE
  /\ eoutcome' = ""
  /\ ereport' = NoReport
  /\ UNCHANGED <<use_docker, docker_available, telemetry>>
  /\ UNCHANGED nonExecutorVars

\* with tempfile.NamedTemporaryFile(..., delete=False) as f:
\*     f.write(wrapper_code)
\* Either raises when the file cannot be created (in Docker mode the tmp
\* directory is only made afterwards) or cannot be written (the code holds
\* a character the file's encoding rejects, the disk is full); the outer
\* except builds the report.  The try whose finally removes the file is
\* entered only after the with block: a file created and not written stays.
TempOutcomes == {"written", "not_created", "write_failed"}

WriteTemp(how) ==
  /\ epc = "wrapped"
  /\ IF how = "written"
       THEN /\ etemp' = TRUE
            /\ epc' = "temp"
            /\ UNCHANGED <<eoutcome, ereport>>
       ELSE /\ eoutcome' = "temp_failed"
            /\ ereport' = ShortReport("OSError")
            /\ epc' = "result"
            /\ etemp' = (how = "write_failed")
  /\ UNCHANGED <<use_docker, docker_available, telemetry, emode, ecode>>
  /\ UNCHANGED nonExecutorVars

\* subprocess.run(..., capture_output=True, timeout=timeout), then
\* _parse_result(result.stdout); the exit status is not looked at.
SubprocessResult(code, started) ==
  LET p == RunWrapper(code)
  IN  IF ~started
        THEN [outcome |-> "exception", report |-> ShortReport("OSError")]
      ELSE IF p.end = "hang"
        THEN [outcome |-> "timeout", report |-> ShortReport("Execution timed out")]
      ELSE [outcome |-> "completed", report |-> ParseResult(p.out)]

\* docker_client.containers.run(...): it returns the logs of a container
\* that exited with status 0, raises ContainerError for another status,
\* and raises something else when the daemon or the call fails (started =
\* FALSE).  Nothing in _execute_docker ends a container that does not end
\* by itself: the call waits for it (outcome "blocked").  handler_ok: the
\* ContainerError handler itself completes (it reads e.stdout); if not, the
\* outer except takes over.
DockerResult(code, started, handler_ok) ==
  LET p == RunWrapper(code)
  IN  IF ~started
        THEN [outcome |-> "exception", report |-> ShortReport("DockerException")]
      ELSE IF p.end = "hang"
        THEN [outcome |-> "blocked", report |-> NoReport]
      ELSE IF p.status # "0"
        THEN [outcome |-> "container_error",
              report |-> IF handler_ok THEN ContainerReport
                         ELSE ShortReport("AttributeError")]
      ELSE [outcome |-> "completed", report |-> ParseResult(p.out)]

\* The backend runs the script and builds the report; the finally clause
\* removes the temporary file on every path on which the backend returns.
RunBackend(started, handler_ok) ==
  /\ epc = "temp"
  /\ LET r == IF emode = "docker"
                THEN DockerResult(ecode, started, handler_ok)
                ELSE SubprocessResult(ecode, started)
     IN  /\ eoutcome' = r.outcome
         /\ ereport' = r.report
         /\ etemp' = IF r.outcome = "blocked" THEN etemp ELSE FALSE
         /\ epc' = IF r.outcome = "blocked" THEN "blocked" ELSE "result"
  /\ UNCHANGED <<use_docker, docker_available, telemetry, emode, ecode>>
  /\ UNCHANGED nonExecutorVars

\* TelemetryLogger.log_code_execution(error=result.get('error')):
\*   if error: error_type = error.get("type")
\* which raises AttributeError when error is a text.
TelemetryRaises(report) == report.error.kind = "string"

\* The end of execute: the telemetry call when a logger is set, then
\* return result.
Finish ==
  /\ epc = "result"
  /\ epc' = IF telemetry /\ TelemetryRaises(ereport) THEN "raised" ELSE "returned"
  /\ UNCHANGED <<use_docker, docker_available, telemetry, emode, ecode, etemp,
                 eoutcome, ereport>>
  /\ UNCHANGED nonExecutorVars

NextExec ==
  \/ Execute
  \/ \E how \in TempOutcomes : WriteTemp(how)
  \/ \E started, handler_ok \in BOOLEAN : RunBackend(started, handler_ok)
  \/ Finish

SpecExec == InitExec /\ [][NextExec]_vars


\* ======================================================================
\* Claims about the Skill Manager (specification Spec)
\* ======================================================================

\* The tree mirrors the Store: a directory (category, name) with code c
\* exists iff the Store holds a row of the agent with that name, category
\* and code.
Mirror(tree, db) ==
  /\ \A p \in DOMAIN tree :
        /\ <<Agent, p[2]>> \in DOMAIN db
        /\ db[<<Agent, p[2]>>].category = p[1]
        /\ db[<<Agent, p[2]>>].code = tree[p].code
  /\ \A k \in DOMAIN db :
        k[1] = Agent =>
          /\ <<db[k].category, k[2]>> \in DOMAIN tree
          /\ tree[<<db[k].category, k[2]>>].code = db[k].code

\* The step in which hydrate_from_database returns normally.
HydrateReturns == hpc = "fetched" /\ hpc' = "idle"

\* C1 (as stated): whenever hydrate_from_database returns normally, with no
\* save_skill and no other hydrate running meanwhile, the filesystem tree
\* mirrors the Store exactly.
C1_HydrateMirrorsStore ==
  [][HydrateReturns => Mirror(fs', store')]_vars

\* C1 (amended): whenever hydrate_from_database returns normally and no
\* background durable write has committed between its fetch of the rows and
\* its return, the filesystem tree mirrors the Store exactly: what was on
\* the filesystem before is gone unless the Store holds it, and rows of
\* other agents are not materialized.
C1_HydrateMirrorsStoreNoCommit ==
  [][(HydrateReturns /\ ~hraceCommit) => Mirror(fs', store')]_vars

\* C1 witness: a hydrate has just returned over a Store that holds a row of
\* the agent and a row of another agent; the old directory is gone and the
\* tree mirrors the Store.
C1_Witness ==
  /\ hret.returned
  /\ hret.count >= 1
  /\ <<OtherAgent, "f">> \in DOMAIN store
  /\ <<"d", "g">> \notin DOMAIN fs
  /\ Mirror(fs, store)

\* The case of the round trip: no row of the agent predates the session,
\* every call was durable, the names are distinct and every durable write
\* has completed before the hydrate fetched.
RoundTripCase ==
  /\ \A k \in DOMAIN store : k[1] = Agent => store[k].created_at > SeedTime
  /\ \A i \in DOMAIN calls : calls[i].persist_to_db /\ tasks[i].st = "done"
  /\ \A i, j \in DOMAIN calls : i # j => calls[i].name # calls[j].name

C3_SaveTwiceAdvancesUpdatedAt ==
  ( /\ Len(calls) = 2
    /\ calls[1] = calls[2]
    /\ calls[1].persist_to_db
    /\ <<Agent, calls[1].name>> \notin DOMAIN EarlierStore
    /\ \A i \in {1, 2} : /\ tasks[i].st \in {"done", "failed"}
                         /\ tasks[i].error # "OperationalError" )
  => /\ <<Agent, calls[1].name>> \in DOMAIN store
     /\ store[<<Agent, calls[1].name>>].created_at
          < store[<<Agent, calls[1].name>>].updated_at

\* How many entries of a listing carry the name.
RECURSIVE CountName(_, _)
CountName(skills, name) ==
  IF skills = << >> THEN 0
  ELSE (IF Head(skills).name = name THEN 1 ELSE 0) + CountName(Tail(skills), name)

\* The step in which a save_skill call returns.
SaveReturns == Len(calls') = Len(calls) + 1

\* C4: as soon as save_skill(code, name, category) returns, list_skills of
\* that category holds exactly one entry with the name and the full listing
\* holds it too (once per category the name was saved in); the steps of the
\* background durable write, failed or not, leave the tree that list_skills
\* reads as it is.
C4_SavedSkillListedOnce ==
  [][/\ SaveReturns =>
          LET c == calls'[Len(calls')]
              all == ListSkills(fs', NoCategory)
          IN  /\ CountName(ListSkills(fs', c.category), c.name) = 1
              /\ \E i \in DOMAIN all :
                    all[i].name = c.name /\ all[i].category = c.category
              /\ \A i, j \in DOMAIN all : all[i].path = all[j].path => i = j
     /\ (tasks' # tasks /\ ~SaveReturns) => fs' = fs]_vars

\* C4 witness: the second call saved the (category, name) of the first
\* again, its durable write has failed, and the category lists the name once.
C4_Witness ==
  /\ Len(calls) = 2
  /\ calls[1].name = calls[2].name
  /\ calls[1].category = calls[2].category
  /\ tasks[2].st = "failed"
  /\ CountName(ListSkills(fs, calls[2].category), calls[2].name) = 1

\* C5: when no durable write is pending and no hydrate is in progress, the
\* directory a save_skill call wrote and the Store row of its name carry
\* the same category and code, also after several durable save_skill calls
\* for the name whose writes completed in any order.  (Stated for the
\* directory of the last call, all calls durable and completed.)
C5_DirectoryAndRowAgree ==
  ( /\ hpc = "idle"
    /\ calls # << >>
    /\ \A i \in DOMAIN calls : calls[i].persist_to_db /\ tasks[i].st = "done" )
  => LET c == calls[Len(calls)]
     IN  ( /\ <<c.category, c.name>> \in DOMAIN fs
           /\ <<Agent, c.name>> \in DOMAIN store )
         => /\ store[<<Agent, c.name>>].category = c.category
            /\ store[<<Agent, c.name>>].code = fs[<<c.category, c.name>>].code

\* C6: the Store changes only in the commit of the durable write of a
\* save_skill call made with persist_to_db = true, and then only in the row
\* of that call's key, which takes the call's category and code; a call
\* with persist_to_db = false, list_skills and hydrate_from_database never
\* change the Store.
C6_StoreWrittenOnlyForPersist ==
  [][store' # store =>
       \E t \in DOMAIN tasks :
          /\ calls[t].persist_to_db
          /\ tasks[t].st = "checked"
          /\ tasks'[t].st = "done"
          /\ <<Agent, calls[t].name>> \in DOMAIN store'
          /\ store'[<<Agent, calls[t].name>>].category = calls[t].category
          /\ store'[<<Agent, calls[t].name>>].code = calls[t].code
          /\ \A k \in (DOMAIN store) \cup (DOMAIN store') :
                k # <<Agent, calls[t].name>> =>
                  k \in DOMAIN store /\ k \in DOMAIN store' /\ store'[k] = store[k]]_vars

\* C6 witness: a call with persist_to_db = false has returned, a hydrate has
\* just returned after it, and the Store is as it was at construction.
C6_Witness ==
  /\ \E i \in DOMAIN calls : ~calls[i].persist_to_db /\ tasks[i].st = "none"
  /\ hret.returned
  /\ store \in {OthersStore, EarlierStore}

\* C7: a failure of the background durable write is only logged: the step
\* in which a task fails records the exception, surfaces nothing to the
\* caller of save_skill and leaves the filesystem unchanged.
C7_PersistFailureOnlyLogged ==
  [][\A t \in DOMAIN tasks :
        (tasks[t].st # "failed" /\ tasks'[t].st = "failed") =>
          /\ tasks'[t].error # ""
          /\ surfaced' = {}
          /\ fs' = fs]_vars

\* C7 witness: a durable write lost the race for its key (IntegrityError),
\* and the directory its call wrote is still there with the call's code.
C7_Witness ==
  \E t \in DOMAIN tasks :
     /\ tasks[t].error = "IntegrityError"
     /\ <<calls[t].category, calls[t].name>> \in DOMAIN fs
     /\ fs[<<calls[t].category, calls[t].name>>].code = calls[t].code
     /\ surfaced = {}

\* ======================================================================
\* Claims about the Code Executor (specification SpecExec)
\* ======================================================================

\* C8: execute never raises to its caller: for every code, backend and
\* internal failure (temp file cannot be written, process cannot be
\* started, container error, timeout, unparsable output) it returns a
\* report whose success is false.
C8_ExecuteNeverRaises ==
  /\ epc # "raised"
  /\ (epc = "returned" /\ eoutcome # "completed") => ~ereport.success

\* C9: every report execute returns satisfies: success = true implies
\* error = null and exit_code = 0; a report with a non-null error has
\* success = false.
C9_SuccessMeansNoError ==
  epc = "returned" =>
    /\ ereport.success => (ereport.error.kind = "null" /\ ereport.exit_code = "0")
    /\ ereport.error.kind # "null" => ~ereport.success

\* Code that completes without raising and without timing out.
CompletesNormally(code) ==
  Stmts(code) \cap (Stops \cup {"syntax_error", "trailing_backslash"}) = {}

\* C10: for code that completes without raising and without timing out,
\* execute returns success = true, error = null and return_value equal to
\* the first-found result variable of the namespace the code leaves.
C10_NormalCodeSucceeds ==
  (epc = "returned" /\ eoutcome = "completed" /\ CompletesNormally(ecode)) =>
    /\ ereport.success
    /\ ereport.error.kind = "null"
    /\ ereport.return_value = FirstFound(Namespace(ecode, Len(ecode)))

\* Code that, run as it was submitted, raises in its body: it compiles and
\* the first statement that does not simply complete raises.
RaisesInBody(code) ==
  /\ Stmts(code) \cap {"syntax_error", "trailing_backslash"} = {}
  /\ FirstStop(code) # 0
  /\ code[FirstStop(code)] = "raise"

\* C11: for code that raises inside the submitted body, execute returns
\* success = false, error.type the name of the raised exception's type and
\* error.line_number the line of the submitted code, counted from 1, at
\* which it was raised.
C11_RaiseReportedAtItsLine ==
  (epc = "returned" /\ eoutcome = "completed" /\ RaisesInBody(ecode)) =>
    /\ ~ereport.success
    /\ ereport.error.kind = "detail"
    /\ ereport.error.type = "ZeroDivisionError"
    /\ ereport.error.line_number = FirstStop(ecode)

\* A variable is populated when the code left a value other than None in it.
Populated(ns, var) == var \in DOMAIN ns /\ ns[var] # "None"

RECURSIVE FirstPopulated(_, _)
FirstPopulated(ns, i) ==
  IF i > Len(ResultVars) THEN "None"
  ELSE IF Populated(ns, ResultVars[i]) THEN ns[ResultVars[i]]
  ELSE FirstPopulated(ns, i + 1)

\* C12: the return_value of the harness's success report is the sentinel
\* __result__ if the code set one, otherwise the first populated variable
\* among result, output, answer, data in that order, otherwise null; an
\* unpopulated earlier name never hides a populated later one.
C12_FirstPopulatedVariable ==
  (epc = "returned" /\ ereport.keys = "harness" /\ ereport.success) =>
    LET ns == Namespace(ecode, Len(ecode))
    IN  ereport.return_value =
          IF Populated(ns, "__result__") THEN ns["__result__"]
          ELSE FirstPopulated(ns, 1)

\* Code that is not Python: it holds an unbalanced bracket, or a backslash
\* ends one of its lines with nothing it could continue into.
Malformed(code) == Stmts(code) \cap {"syntax_error", "trailing_backslash"} # {}

\* C13: execute on code containing a syntax error returns a report with
\* success = false, whatever the malformed text is; no crash escapes to the
\* caller.
C13_SyntaxErrorReported ==
  (Malformed(ecode) /\ eoutcome = "completed") =>
    /\ epc # "raised"
    /\ epc = "returned" => ~ereport.success

\* The code writes to standard output with print only, and the harness gets
\* to its three closing print calls.
PrintsAndEmits(code) ==
  /\ Stmts(code) \cap {"os_write_report", "os_write_text"} = {}
  /\ RunWrapper(code).end = "exited"
  /\ RunWrapper(code).status = "0"

\* The report the harness emitted, read back from what Emit wrote: the
\* fields of the JSON object and, as its stdout, the text the code printed.
EmittedReport(out) == Report(out[2].core, SubSeq(out, 3, Len(out) - 2))

\* C14: whatever the code prints to standard output, marker lines
\* included, the report execute returns is the one the harness emitted,
\* with the printed text in its stdout field only.
C14_PrintedTextNotMistaken ==
  (epc = "returned" /\ eoutcome = "completed" /\ PrintsAndEmits(ecode)) =>
    ereport = EmittedReport(RunWrapper(ecode).out)

\* What the backend captured of a process that ended by itself: its
\* standard output.
CapturedOutput == RunWrapper(ecode).out

\* The report the parser synthesizes: success false, an error dictionary of
\* the given type with null line_number, the raw output under stdout.
Synthesized(report, type, output) ==
  /\ ~report.success
  /\ report.error.kind = "detail"
  /\ report.error.type = type
  /\ report.error.line_number = 0
  /\ report.stdout = output

\* C15: when a marker is absent from the captured output the parser
\* synthesizes a ParseError report, when the text between the markers is
\* not valid JSON a JSONDecodeError report; either has success = false, a
\* null line_number and the raw captured output unchanged under stdout.
C15_ParserSynthesizesReport ==
  (epc = "returned" /\ eoutcome = "completed") =>
    LET start_idx == Find(CapturedOutput, "start")
        end_idx == Find(CapturedOutput, "end")
    IN  /\ (start_idx = 0 \/ end_idx = 0) =>
             Synthesized(ereport, "ParseError", CapturedOutput)
        /\ (start_idx # 0 /\ end_idx # 0
              /\ ~JsonDecodes(Between(CapturedOutput, start_idx, end_idx))) =>
             Synthesized(ereport, "JSONDecodeError", CapturedOutput)

\* C15 witness: the code wrote text to its standard output and exited before
\* the harness printed its markers; the ParseError report carries that text.
C15_Witness ==
  /\ epc = "returned"
  /\ eoutcome = "completed"
  /\ ecode = <<"os_write_text", "exit">>
  /\ ereport.error.type = "ParseError"
  /\ ereport.stdout = <<Text>>

\* The text of the report's error for a timeout:
\* "Execution timed out after {timeout}s".
TimeoutError == ErrString("Execution timed out")

\* C16: when the backend's process or container does not complete within
\* the timeout, execute returns, without waiting for the code, a report
\* with success = false whose error is the text naming the timeout; on
\* both backends.
C16_TimeoutReported ==
  eoutcome \in {"timeout", "blocked"} =>
    /\ epc \notin {"blocked", "raised"}
    /\ epc = "returned" => (~ereport.success /\ ereport.error = TimeoutError)

\* C17: when execute returns, the temporary source file of the call no
\* longer exists, on every exit path (code succeeded, code raised, timeout,
\* failure while writing the file or starting the backend) and on both
\* backends.
C17_TempFileRemoved ==
  epc = "returned" => ~etemp

\* The isolated backend was chosen for the call and could not run the
\* code: containers.run raised something other than ContainerError (the
\* daemon is not reachable any more, the image is gone, the call is
\* rejected), and the outer except of _execute_docker built the report.
IsolatedBackendFailed ==
  emode = "docker" /\ eoutcome = "exception"

\* C18: for every execute call the subprocess backend is used whenever the
\* isolated backend is disabled or unavailable, and an unavailable isolated
\* backend is never reported to the caller of execute as an error: no call
\* ends with the error report of an isolated backend that could not run
\* the code.
C18_FallbackToSubprocess ==
  emode # "" =>
    /\ ~use_docker => emode = "subprocess"
    /\ ~docker_available => emode = "subprocess"
    /\ ~IsolatedBackendFailed

\* The outcome classes of a call whose backend was asked to run `code`:
\* `outcome` tells whether the backend could run it at all.
OutcomeClass(code, outcome) ==
  IF outcome = "exception" THEN "backend_fails"
  ELSE IF RunWrapper(code).end = "hang" THEN "timeout"
  ELSE IF RaisesInBody(code) THEN "raises"
  ELSE IF CompletesNormally(code) /\ WrapperCompiles(code) /\ CodeCompiles(code)
    THEN "succeeds"
  ELSE "other"

\* What the backend that was not chosen does with the same code in the
\* same outcome class.
OtherBackend(code, outcome, handler_ok) ==
  IF emode = "docker"
    THEN SubprocessResult(code, outcome # "exception")
    ELSE DockerResult(code, outcome # "exception", handler_ok)

\* C19: for each outcome class (code succeeds, code raises, timeout,
\* backend fails to run the code) the report returned through the isolated
\* backend and the report returned through the subprocess backend have the
\* same set of keys, the one of the harness report (success, return_value,
\* stdout, stderr, error, execution_time_ms, exit_code), and the same
\* success value.
C19_BackendsSameContract ==
  ( /\ epc = "returned"
    /\ eoutcome \notin {"", "temp_failed"}
    /\ OutcomeClass(ecode, eoutcome) # "other" ) =>
      /\ ereport.keys = "harness"
      /\ \A handler_ok \in BOOLEAN :
           LET other == OtherBackend(ecode, eoutcome, handler_ok)
           IN  /\ other.outcome # "blocked"
               /\ other.report.keys = ereport.keys
               /\ other.report.success = ereport.success

\* The statements that make a dispatch call to server s, directly or
\* through a generated wrapper.
HookStatements == {"mcp_call", "wrapper_call"}

\* Code that makes a dispatch call and nothing else that could fail or
\* set a result: printing, then the call as its last statement.
CallsHook(code) ==
  /\ Len(code) >= 1
  /\ code[Len(code)] \in HookStatements
  /\ \A i \in 1..(Len(code) - 1) : code[i] = "print"

\* C20: while the host runtime has server s registered, a dispatch call
\* mcp_call(s, op, params) made by the code execute runs is routed to s's
\* session and its normalized result is returned to that code: the call
\* does not fail because the hook is undefined or the runtime is
\* uninitialised in the execution process.
C20_HookReachesRuntime ==
  ( /\ epc = "returned"
    /\ eoutcome = "completed"
    /\ CallsHook(ecode)
    /\ "s" \in HostRuntime.servers ) =>
      /\ ereport.error.type \notin {"NameError", "RuntimeError"}
      /\ ereport.success
      /\ ereport.return_value = McpCall(HostRuntime, "s").value

\* ======================================================================
\* The Routing Runtime
\* ======================================================================
\* The servers a connector is configured with and a caller may name.
ServerIds == {"s", "t"}

\* The maps a caller builds itself and hands to register_servers.
CallerMaps == {{"s"}, {"t"}}

\* What session.call_tool returns: an object with or without a `content`
\* attribute; the content is a list of items, each with or without a
\* `text` attribute, or something that is not a list.
Item(has_text) == [has_text |-> has_text]
ContentList(items) == [kind |-> "list", items |-> items]
ContentOther == [kind |-> "other", items |-> << >>]
Raw(has_content, content) == [has_content |-> has_content, content |-> content]
NoRaw == Raw(FALSE, ContentOther)

RawResults ==
  { Raw(FALSE, ContentOther),
    Raw(TRUE, ContentList(<< >>)),
    Raw(TRUE, ContentList(<<Item(TRUE)>>)),
    Raw(TRUE, ContentList(<<Item(FALSE), Item(TRUE)>>)),
    Raw(TRUE, ContentOther) }

\* bool(result.content): an empty list is falsy, the other contents of
\* the model are not.
Truthy(content) == content.kind = "other" \/ Len(content.items) > 0

\* The result extraction of _async_call.  The value returned is named by
\* what it is: the text of the first item, the first item, the content,
\* the raw result.
ExtractFirstOnly(result) ==
  IF result.has_content /\ Truthy(result.content)
    THEN IF result.content.kind = "list" /\ Len(result.content.items) > 0
           THEN "first_item"
           ELSE "content"
    ELSE "raw_result"

Extract(result) ==
  IF result.has_content /\ Truthy(result.content)
    THEN IF result.content.kind = "list" /\ Len(result.content.items) > 0
           THEN IF result.content.items[1].has_text
                  THEN "first_text"
                  ELSE "first_item"
           ELSE "content"
    ELSE "raw_result"

\* One MCPRuntime.call invocation: where it is, the exception it raised,
\* how often the session's call_tool was invoked for it, what call_tool
\* returned and what the invocation returned.
CallRecord(server, st, error, invoked, raw, result) ==
  [server |-> server, st |-> st, error |-> error, invoked |-> invoked,
   raw |-> raw, result |-> result]

\* A remote call is running on the event loop.
InFlight == \E i \in DOMAIN rcalls : rcalls[i].st = "inflight"

\* The servers call accepts.
Accepted == rheap[rservers]

\* register_servers(connections): self.servers = connections, and the
\* event loop is looked up.  The caller hands over a map it has just built.
RegisterServers(S) ==
  /\ S \in CallerMaps
  /\ rheap' = [rheap EXCEPT !["map"] = S]
  /\ rservers' = "map"
  /\ rloop' = TRUE
  /\ UNCHANGED rcalls
  /\ UNCHANGED nonRuntimeVars

\* MCPApi.start: runtime.register_servers(connector.get_connections());
\* get_connections returns the connector's dictionary itself.
RegisterConnections ==
  /\ rservers' = "conn"
  /\ rloop' = TRUE
  /\ UNCHANGED <<rheap, rcalls>>
  /\ UNCHANGED nonRuntimeVars

\* clear(): self.servers.clear(); self._event_loop = None
ClearServersOnly ==
  /\ rheap' = [rheap EXCEPT ![rservers] = {}]
  /\ UNCHANGED <<rservers, rloop, rcalls>>
  /\ UNCHANGED nonRuntimeVars

Clear ==
  /\ rheap' = [rheap EXCEPT ![rservers] = {}]
  /\ rloop' = FALSE
  /\ UNCHANGED <<rservers, rcalls>>
  /\ UNCHANGED nonRuntimeVars

\* MCPConnector.connect_all: every configured server is connected and put
\* into self.connections.  It runs on the event loop, which refuses while
\* a call is running on it.
ConnectAll ==
  /\ ~InFlight
  /\ rheap' = [rheap EXCEPT !["conn"] = ServerIds]
  /\ UNCHANGED <<rservers, rloop, rcalls>>
  /\ UNCHANGED nonRuntimeVars

\* MCPConnector.disconnect_all: the sessions are closed on the event loop
\* and self.connections.clear().
DisconnectAll ==
  /\ ~InFlight
  /\ rheap' = [rheap EXCEPT !["conn"] = {}]
  /\ UNCHANGED <<rservers, rloop, rcalls>>
  /\ UNCHANGED nonRuntimeVars

\* call(server, tool, params) up to run_until_complete: the two checks,
\* then the event loop, which raises RuntimeError("This event loop is
\* already running") when a call is running on it, and otherwise starts
\* _async_call, which invokes the session's call_tool.
BeginCall(server) ==
  IF server \notin Accepted
    THEN CallRecord(server, "raised", "ValueError", 0, NoRaw, "")
  ELSE IF ~rloop
    THEN CallRecord(server, "raised", "RuntimeError", 0, NoRaw, "")
  ELSE IF InFlight
    THEN CallRecord(server, "raised", "LoopRunning", 0, NoRaw, "")
  ELSE CallRecord(server, "inflight", "", 1, NoRaw, "")

CallStart(server) ==
  /\ Len(rcalls) < MaxCalls
  /\ rcalls' = Append(rcalls, BeginCall(server))
  /\ UNCHANGED <<rheap, rservers, rloop>>
  /\ UNCHANGED nonRuntimeVars

\* The remote call ends: call_tool returns and the result is extracted, or
\* it raises, and the except clause logs and raises again.
EndCallRetrying(call, ok, raw) ==
  IF ok
    THEN [call EXCEPT !.st = "returned", !.raw = raw, !.result = Extract(raw)]
    ELSE [call EXCEPT !.st = "raised", !.error = "RemoteError", !.invoked = 2]

EndCall(call, ok, raw) ==
  IF ok
    THEN [call EXCEPT !.st = "returned", !.raw = raw, !.result = Extract(raw)]
    ELSE [call EXCEPT !.st = "raised", !.error = "RemoteError"]

CallFinish(i, ok, raw) ==
  /\ i \in DOMAIN rcalls
  /\ rcalls[i].st = "inflight"
  /\ rcalls' = [rcalls EXCEPT ![i] = EndCall(rcalls[i], ok, raw)]
  /\ UNCHANGED <<rheap, rservers, rloop>>
  /\ UNCHANGED nonRuntimeVars

InitRuntime ==
  /\ ManagerAtRest
  /\ use_docker = FALSE
  /\ docker_available = FALSE
  /\ telemetry = FALSE
  /\ ExecutorAtRest
  /\ ScanAtRest
  /\ StoreAtRest
  /\ SkillsAtRest
  /\ ApiAtRest
  /\ HookAtRest
  /\ RuntimeAtRest

NextRuntime ==
  \/ \E S \in CallerMaps : RegisterServers(S)
  \/ RegisterConnections
  \/ Clear
  \/ ConnectAll
  \/ DisconnectAll
  \/ \E server \in ServerIds : CallStart(server)
  \/ \E i \in 1..MaxCalls, ok \in BOOLEAN, raw \in RawResults : CallFinish(i, ok, raw)

SpecRuntime == InitRuntime /\ [][NextRuntime]_vars

\* ----------------------------------------------------------------------
\* Claims about the Routing Runtime (checked under SpecRuntime)
\* ----------------------------------------------------------------------
\* A step in which a call(server, tool, params) invocation begins.
CallBegins == Len(rcalls') = Len(rcalls) + 1

\* The invocation that begins in such a step.
Begun == rcalls'[Len(rcalls')]

\* C21: in every reachable runtime state, call fails with ValueError if
\* and only if the server is absent from the connection set; otherwise it
\* fails with RuntimeError if and only if no execution context has been
\* established; otherwise it performs the remote call.  In both error cases
\* the session's call_tool is not invoked and the runtime state is
\* unchanged.
C21_CallChecksServerThenContext ==
  [][ CallBegins =>
        /\ (Begun.error = "ValueError") <=> (Begun.server \notin Accepted)
        /\ Begun.server \in Accepted =>
             ((Begun.st = "raised") <=> ~rloop)
        /\ (Begun.server \in Accepted /\ rloop) =>
             (Begun.st = "inflight" /\ Begun.invoked = 1)
        /\ Begun.st = "raised" =>
             (Begun.invoked = 0 /\ UNCHANGED <<rheap, rservers, rloop>>) ]_vars

\* C22: clear() drops all connections and the execution context and is
\* idempotent: after clear the connection set is empty and the context is
\* absent, a clear in that state changes nothing, every call begun while
\* no register_servers has followed fails, and once register_servers has
\* followed, a call to a server of the registered map is carried out.
C22_ClearDropsAndIsIdempotent ==
  [][ /\ Clear => (Accepted' = {} /\ ~rloop')
      /\ (Clear /\ Accepted = {} /\ ~rloop) => UNCHANGED rvars
      /\ (CallBegins /\ ~rloop) =>
           (Begun.st = "raised" /\ Begun.invoked = 0)
      /\ (\E S \in CallerMaps : RegisterServers(S)) =>
           (rloop' /\ Accepted' \in CallerMaps)
      /\ (CallBegins /\ rloop /\ Begun.server \in Accepted /\ ~InFlight) =>
           Begun.st = "inflight" ]_vars

\* register_servers, a call that returned, clear, and a call that failed.
C22_Witness ==
  /\ ~rloop
  /\ rservers = "map"
  /\ Accepted = {}
  /\ Len(rcalls) = 2
  /\ rcalls[1].st = "returned"
  /\ rcalls[2].st = "raised"

\* The invocations that returned a value.
ReturnedCalls == {i \in DOMAIN rcalls : rcalls[i].st = "returned"}

\* The raw result carries a list of content items that is not empty.
HasItems(raw) ==
  raw.has_content /\ raw.content.kind = "list" /\ Len(raw.content.items) > 0

\* C23 as stated: result normalization follows exactly three tiers: the
\* text of the first content item if the content is a non-empty list whose
\* first item has a textual payload; the first raw item if the result
\* carries content whose first item has no textual payload; the raw result
\* if there is no content wrapper or the content list is empty.
C23_ThreeTiers ==
  \A i \in ReturnedCalls :
    LET raw == rcalls[i].raw
        result == rcalls[i].result
    IN  /\ (HasItems(raw) /\ raw.content.items[1].has_text) =>
             result = "first_text"
        /\ ( /\ raw.has_content
             /\ Truthy(raw.content)
             /\ ~(HasItems(raw) /\ raw.content.items[1].has_text) ) =>
             result = "first_item"
        /\ ~raw.has_content => result = "raw_result"
        /\ (raw.has_content /\ ~Truthy(raw.content)) => result = "raw_result"

\* C23, amended: there is a fourth tier.  The text of the first item and
\* the first raw item are returned only when the content is a non-empty
\* list; content that is not a list is returned itself, whole; a result
\* without content or with an empty content list is returned unchanged.
C23_FourTiers ==
  \A i \in ReturnedCalls :
    LET raw == rcalls[i].raw
        result == rcalls[i].result
    IN  /\ (HasItems(raw) /\ raw.content.items[1].has_text) =>
             result = "first_text"
        /\ (HasItems(raw) /\ ~raw.content.items[1].has_text) =>
             result = "first_item"
        /\ (raw.has_content /\ raw.content.kind # "list") =>
             result = "content"
        /\ ~raw.has_content => result = "raw_result"
        /\ (raw.has_content /\ ~Truthy(raw.content)) => result = "raw_result"

\* One call returned the text of a first item, another content that is
\* not a list.
C23_Witness ==
  /\ Len(rcalls) = 2
  /\ rcalls[1].st = "returned" /\ rcalls[1].result = "first_text"
  /\ rcalls[2].st = "returned" /\ rcalls[2].result = "content"
  /\ rcalls[2].raw.content.kind = "other"

\* The remote call of invocation i raises in this step.
RemoteCallFails(i) ==
  /\ i \in DOMAIN rcalls
  /\ rcalls[i].st = "inflight"
  /\ rcalls'[i].st = "raised"

\* C24: an error raised by the remote call propagates unchanged to the
\* caller: the session's call_tool has been invoked exactly once for the
\* call, the caller gets the remote error, the connection set and the
\* execution context are what they were, and a call begun after a failed
\* one is carried out.
C24_RemoteErrorPropagates ==
  [][ /\ \A i \in 1..MaxCalls :
           RemoteCallFails(i) =>
             /\ rcalls'[i].error = "RemoteError"
             /\ rcalls'[i].invoked = 1
             /\ UNCHANGED <<rheap, rservers, rloop>>
      /\ ( /\ CallBegins
           /\ \E i \in DOMAIN rcalls : rcalls[i].error = "RemoteError"
           /\ Begun.server \in Accepted /\ rloop /\ ~InFlight ) =>
             Begun.st = "inflight" ]_vars

\* A call whose remote call raised, then a call that returned.
C24_Witness ==
  /\ Len(rcalls) = 2
  /\ rcalls[1].st = "raised" /\ rcalls[1].error = "RemoteError"
  /\ rcalls[2].st = "returned"

\* A step of register_servers or clear on the runtime.
RegisterOrClear ==
  \/ \E S \in CallerMaps : RegisterServers(S)
  \/ RegisterConnections
  \/ Clear

\* C25: the connection set is mutated only by register_servers and clear
\* calls on the runtime: no other operation (connect_all, disconnect_all,
\* call) changes which servers call accepts; register_servers replaces the
\* set by the map given; and clear changes nothing outside the runtime,
\* the connector's connections included.
C25_OnlyRegisterAndClearMutate ==
  [][ /\ Accepted' # Accepted => RegisterOrClear
      /\ \A S \in CallerMaps : RegisterServers(S) => Accepted' = S
      /\ Clear => rheap'["conn"] = rheap["conn"] ]_vars

\* The invocations whose remote call is running.
CallsInFlight == {i \in DOMAIN rcalls : rcalls[i].st = "inflight"}

\* C26: calls are serialized through the runtime's single execution
\* context: at most one remote call is in flight at any time, and a call
\* issued while another is in flight is not refused for that reason: it
\* fails only for an unregistered server, a missing context or an error of
\* its own remote call.
C26_CallsSerialized ==
  /\ Cardinality(CallsInFlight) <= 1
  /\ \A i \in DOMAIN rcalls :
       rcalls[i].st = "raised" =>
         rcalls[i].error \in {"ValueError", "RuntimeError", "RemoteError"}

\* ======================================================================
\* Dependency extraction (SkillManager._extract_dependencies)
\* ======================================================================
\* The code scanned is a sequence of lines.  A line is some other
\* statement, or holds the text  <before>mcp_call(<arg1>, <arg2>, {})
\* where <before> is what stands directly in front of the name (nothing,
\* or the rest of a longer name such as log_mcp_call), the line may be a
\* comment, and an argument is a literal in single or double quotes, a
\* name, or missing because the text breaks off.
Arg(kind, text) == [kind |-> kind, text |-> text]
NoArg == Arg("missing", "")

Line(text, before, commented, arg1, arg2) ==
  [text |-> text, before |-> before, commented |-> commented,
   arg1 |-> arg1, arg2 |-> arg2]

Lines ==
  { Line("call", "", FALSE, Arg("sq", "a"), Arg("sq", "x")),
    Line("call", "", FALSE, Arg("dq", "a"), Arg("dq", "x")),
    Line("call", "", FALSE, Arg("sq", "b"), Arg("dq", "y")),
    Line("call", "", FALSE, Arg("name", "server"), Arg("sq", "x")),
    Line("call", "", FALSE, Arg("sq", "a"), NoArg),
    Line("call", "log_", FALSE, Arg("sq", "b"), Arg("sq", "x")),
    Line("call", "", TRUE, Arg("sq", "b"), Arg("sq", "x")),
    Line("other", "", FALSE, NoArg, NoArg) }

Sources == SeqsUpTo(Lines, MaxLines)

\* ["\']([^"\']+)["\'] : a quote, one or more characters that are no
\* quotes, a quote.
QuotedText(arg) == arg.kind \in {"sq", "dq"} /\ arg.text # ""

\* pattern = r'mcp_call\s*\(\s*["\']([^"\']+)["\']\s*,\s*["\']([^"\']+)["\']'
\* matched with re.finditer anywhere in the text: what stands in front of
\* the name and whether the line is a comment are not looked at.
PatternMatches(line) ==
  /\ line.text = "call"
  /\ QuotedText(line.arg1)
  /\ QuotedText(line.arg2)

\* key = (match.group(1), match.group(2))
Key(line) == <<line.arg1.text, line.arg2.text>>

\* The loop over the matches: a key not seen before is appended.
RECURSIVE ScanFrom(_, _, _, _)
ScanFrom(code, i, seen, dependencies) ==
  IF i > Len(code) THEN dependencies
  ELSE IF PatternMatches(code[i]) /\ Key(code[i]) \notin seen
    THEN ScanFrom(code, i + 1, seen \cup {Key(code[i])},
                  Append(dependencies, Key(code[i])))
  ELSE ScanFrom(code, i + 1, seen, dependencies)

ExtractDependencies(code) == ScanFrom(code, 1, {}, << >>)

InitScan ==
  /\ ManagerAtRest
  /\ use_docker = FALSE
  /\ docker_available = FALSE
  /\ telemetry = FALSE
  /\ ExecutorAtRest
  /\ RuntimeAtRest
  /\ StoreAtRest
  /\ SkillsAtRest
  /\ ApiAtRest
  /\ HookAtRest
  /\ dcode \in Sources
  /\ dscanned = FALSE
  /\ ddeps = << >>

\* dependencies = self._extract_dependencies(code)
ExtractDependenciesCall ==
  /\ ~dscanned
  /\ ddeps' = ExtractDependencies(dcode)
  /\ dscanned' = TRUE
  /\ UNCHANGED dcode
  /\ UNCHANGED nonScanVars

NextScan == ExtractDependenciesCall

SpecScan == InitScan /\ [][NextScan]_vars

\* ----------------------------------------------------------------------
\* Claims about dependency extraction (checked under SpecScan)
\* ----------------------------------------------------------------------
\* A line that invokes mcp_call with two string literals as its leading
\* arguments.
IsDispatchCall(line) ==
  /\ line.text = "call"
  /\ line.before = ""
  /\ ~line.commented
  /\ QuotedText(line.arg1)
  /\ QuotedText(line.arg2)

\* The first line of the code that invokes the dispatch call with key k.
FirstCall(code, k) ==
  CHOOSE i \in DOMAIN code :
    /\ IsDispatchCall(code[i]) /\ Key(code[i]) = k
    /\ \A j \in 1..(i - 1) : ~(IsDispatchCall(code[j]) /\ Key(code[j]) = k)

\* C27: _extract_dependencies returns the distinct (server, tool) pairs of
\* the mcp_call invocations whose two leading arguments are string
\* literals, in either quoting style, in order of first occurrence: no
\* pair twice, exactly the pairs of such invocations, ordered by their
\* first invocation, and the empty list for code without such calls.
C27_DependenciesDistinctInOrder ==
  dscanned =>
    LET called == {Key(dcode[i]) : i \in {j \in DOMAIN dcode : IsDispatchCall(dcode[j])}}
    IN  /\ \A i, j \in DOMAIN ddeps : ddeps[i] = ddeps[j] => i = j
        /\ {ddeps[i] : i \in DOMAIN ddeps} = called
        /\ \A i, j \in DOMAIN ddeps :
             (i < j /\ ddeps[i] \in called /\ ddeps[j] \in called) =>
               FirstCall(dcode, ddeps[i]) < FirstCall(dcode, ddeps[j])

\* ======================================================================
\* The Skills Store on its own (SkillsDatabase)
\* ======================================================================
\* The values given for the JSON columns: None, a list or a dictionary,
\* each with its items.
PyValue(type, items) == [type |-> type, items |-> items]
PyNone == PyValue("none", << >>)

\* bool(value)
PyTruthy(value) == value.type # "none" /\ Len(value.items) > 0

\* The text of a column: NULL, or the JSON text of a list ("[...]") or of
\* an object ("{...}").
JsonText(opening, body) == [opening |-> opening, body |-> body]
Null == JsonText("", << >>)

\* json.dumps(value)
Dumps(value) ==
  JsonText(IF value.type = "list" THEN "[" ELSE "{", value.items)

\* json.loads(text)
Loads(text) ==
  PyValue(IF text.opening = "[" THEN "list" ELSE "dict", text.body)

\* json.dumps(dependencies) if dependencies else None
ToColumn(value) == IF PyTruthy(value) THEN Dumps(value) ELSE Null

\* if skill.get('dependencies'): skill['dependencies'] = json.loads(...)
FromColumn(text) == IF text # Null THEN Loads(text) ELSE PyNone

\* The arguments of a save_skill call.
SaveArgs(agent, name, category, code, dependencies, metadata) ==
  [agent |-> agent, name |-> name, category |-> category, code |-> code,
   dependencies |-> dependencies, metadata |-> metadata]

\* The calls made: empty structures, filled ones, none at all, for one
\* agent and for another that uses the same skill name.
StoreInputs ==
  { SaveArgs(Agent, "f", "c", "p", PyValue("list", << >>), PyValue("dict", << >>)),
    SaveArgs(Agent, "f", "d", "q", PyValue("list", <<"dep">>), PyValue("dict", <<"k">>)),
    SaveArgs(Agent, "g", "c", "p", PyValue("list", <<"dep">>), PyNone),
    SaveArgs(OtherAgent, "f", "c", "p", PyNone, PyNone) }

StoreAgents == {Agent, OtherAgent}
StoreNames == {"f", "g"}

\* A record of the skills table.  given_dependencies and given_metadata
\* are not columns: they remember the values the last write was given.
StoreRow(category, code, created, updated, args) ==
  [category |-> category, code |-> code, created_at |-> created,
   updated_at |-> updated,
   dependencies |-> ToColumn(args.dependencies),
   metadata |-> ToColumn(args.metadata),
   given_dependencies |-> args.dependencies,
   given_metadata |-> args.metadata]

\* dict(row) with the JSON columns parsed.
Parsed(db, k) ==
  [agent_name |-> k[1], skill_name |-> k[2],
   category |-> db[k].category, code |-> db[k].code,
   created_at |-> db[k].created_at, updated_at |-> db[k].updated_at,
   dependencies |-> FromColumn(db[k].dependencies),
   metadata |-> FromColumn(db[k].metadata),
   given_dependencies |-> db[k].given_dependencies,
   given_metadata |-> db[k].given_metadata]

\* ORDER BY category, skill_name
RECURSIVE StoreSort(_, _)
StoreSort(db, keys) ==
  IF keys = {} THEN << >>
  ELSE LET k == CHOOSE q \in keys :
                  \A r \in keys :
                     \/ q = r
                     \/ Rank(db[q].category) < Rank(db[r].category)
                     \/ (Rank(db[q].category) = Rank(db[r].category)
                         /\ Rank(q[2]) <= Rank(r[2]))
       IN  <<Parsed(db, k)>> \o StoreSort(db, keys \ {k})

\* SELECT * FROM skills WHERE agent_name = ? ORDER BY category, skill_name
StoreGetAll(db, agent) == StoreSort(db, {k \in DOMAIN db : k[1] = agent})

\* SELECT * ... WHERE agent_name = ? AND skill_name = ? ; None is << >>.
StoreGet(db, agent, name) ==
  IF <<agent, name>> \in DOMAIN db THEN <<Parsed(db, <<agent, name>>)>> ELSE << >>

\* DELETE FROM skills WHERE agent_name = ? AND skill_name = ?
StoreDeleteByName(db, agent, name) ==
  [k \in {q \in DOMAIN db : q[2] # name} |-> db[k]]

StoreDelete(db, agent, name) ==
  [k \in (DOMAIN db) \ {<<agent, name>>} |-> db[k]]

\* SELECT COUNT(*) ... WHERE agent_name = ? and the count by category.
StoreStats(db, agent) ==
  [total_skills |-> Cardinality({k \in DOMAIN db : k[1] = agent}),
   by_category |->
     [c \in {db[k].category : k \in {q \in DOMAIN db : q[1] = agent}} |->
        Cardinality({k \in DOMAIN db : k[1] = agent /\ db[k].category = c})]]

\* UPDATE ... WHERE agent_name = ? AND skill_name = ? : created_at is not
\* in the SET list; no row, no change.
StoreUpdate(db, args, now) ==
  LET k == <<args.agent, args.name>>
  IN  IF k \in DOMAIN db
        THEN Put(db, k, StoreRow(args.category, args.code, db[k].created_at, now, args))
        ELSE db

\* INSERT ... VALUES (..., now, now, ...)
StoreInsert(db, args, now) ==
  Put(db, <<args.agent, args.name>>, StoreRow(args.category, args.code, now, now, args))

Result(op, agent, name, value) ==
  [op |-> op, agent |-> agent, name |-> name, value |-> value]

\* save_skill up to the branch: now = datetime.utcnow(), existing =
\* await self.get_skill(agent_name, skill_name).
SaveBegin(i, args) ==
  /\ ssave[i].st = "idle"
  /\ sclock <= MaxWrites
  /\ ssave' = [ssave EXCEPT ![i] =
                 [st |-> "checked", args |-> args, now |-> sclock,
                  existing |-> <<args.agent, args.name>> \in DOMAIN sdb]]
  /\ sclock' = sclock + 1
  /\ sret' = NoResult
  /\ UNCHANGED sdb
  /\ UNCHANGED nonStoreVars

\* The UPDATE or the INSERT, and the commit.  An INSERT on a key that a
\* write of another caller has inserted since the check violates the
\* primary key and raises IntegrityError.
SaveWrite(i) ==
  /\ ssave[i].st = "checked"
  /\ LET args == ssave[i].args
         conflict == ~ssave[i].existing /\ <<args.agent, args.name>> \in DOMAIN sdb
     IN  /\ sdb' = IF ssave[i].existing THEN StoreUpdate(sdb, args, ssave[i].now)
                   ELSE IF conflict THEN sdb
                   ELSE StoreInsert(sdb, args, ssave[i].now)
         /\ sret' = Result("save_skill", args.agent, args.name,
                           <<IF conflict THEN "IntegrityError" ELSE "None">>)
  /\ ssave' = [ssave EXCEPT ![i] = NoSave]
  /\ UNCHANGED sclock
  /\ UNCHANGED nonStoreVars

GetSkillCall(agent, name) ==
  /\ sret' = Result("get_skill", agent, name, StoreGet(sdb, agent, name))
  /\ UNCHANGED <<sdb, sclock, ssave>>
  /\ UNCHANGED nonStoreVars

GetAllSkillsCall(agent) ==
  /\ sret' = Result("get_all_skills", agent, "", StoreGetAll(sdb, agent))
  /\ UNCHANGED <<sdb, sclock, ssave>>
  /\ UNCHANGED nonStoreVars

\* deleted = cursor.rowcount > 0
DeleteSkillCall(agent, name) ==
  /\ sdb' = StoreDelete(sdb, agent, name)
  /\ sret' = Result("delete_skill", agent, name, <<(<<agent, name>> \in DOMAIN sdb)>>)
  /\ UNCHANGED <<sclock, ssave>>
  /\ UNCHANGED nonStoreVars

GetAgentStatsCall(agent) ==
  /\ sret' = Result("get_agent_stats", agent, "", <<StoreStats(sdb, agent)>>)
  /\ UNCHANGED <<sdb, sclock, ssave>>
  /\ UNCHANGED nonStoreVars

InitStore ==
  /\ ManagerAtRest
  /\ use_docker = FALSE
  /\ docker_available = FALSE
  /\ telemetry = FALSE
  /\ ExecutorAtRest
  /\ RuntimeAtRest
  /\ ScanAtRest
  /\ StoreAtRest
  /\ SkillsAtRest
  /\ ApiAtRest
  /\ HookAtRest

NextStore ==
  \/ \E i \in Savers, args \in StoreInputs : SaveBegin(i, args)
  \/ \E i \in Savers : SaveWrite(i)
  \/ \E agent \in StoreAgents, name \in StoreNames : GetSkillCall(agent, name)
  \/ \E agent \in StoreAgents : GetAllSkillsCall(agent)
  \/ \E agent \in StoreAgents, name \in StoreNames : DeleteSkillCall(agent, name)
  \/ \E agent \in StoreAgents : GetAgentStatsCall(agent)

SpecStore == InitStore /\ [][NextStore]_vars

\* ----------------------------------------------------------------------
\* Claims about the Skills Store (checked under SpecStore)
\* ----------------------------------------------------------------------
\* The records the operation that has just ended returned.
ReturnedRows ==
  IF sret.op \in {"get_skill", "get_all_skills"}
    THEN {sret.value[i] : i \in DOMAIN sret.value}
    ELSE {}

\* C28: the Store round-trips its JSON-valued columns: for every value
\* given as dependencies or metadata, empty structures included,
\* get_skill and get_all_skills return, for the record a save_skill wrote,
\* that value unchanged in that column.
C28_JsonColumnsRoundTrip ==
  \A row \in ReturnedRows :
    /\ row.dependencies = row.given_dependencies
    /\ row.metadata = row.given_metadata

\* A save_skill write step of caller i and the key it is for.
SaveWrites(i) == ssave[i].st = "checked" /\ ssave'[i].st = "idle"
SaveKey(i) == <<ssave[i].args.agent, ssave[i].args.name>>

\* The record of key k carries what the call was given.
Carries(row, args) ==
  /\ row.category = args.category
  /\ row.code = args.code
  /\ row.given_dependencies = args.dependencies
  /\ row.given_metadata = args.metadata

\* C29: save_skill is an upsert on the key (agent_name, skill_name): a
\* save on an existing key updates category, code, dependencies, metadata
\* and updated_at in place and leaves created_at unchanged; a save on a new
\* key inserts a record with created_at = updated_at; and created_at of a
\* record never changes while the record exists.
C29_SaveIsUpsert ==
  [][ /\ \A i \in Savers :
           SaveWrites(i) =>
             LET k == SaveKey(i)
             IN  /\ k \in DOMAIN sdb'
                 /\ Carries(sdb'[k], ssave[i].args)
                 /\ sdb'[k].updated_at = ssave[i].now
                 /\ IF k \in DOMAIN sdb
                      THEN sdb'[k].created_at = sdb[k].created_at
                      ELSE sdb'[k].created_at = sdb'[k].updated_at
      /\ \A k \in (DOMAIN sdb) \cap (DOMAIN sdb') :
           sdb'[k].created_at = sdb[k].created_at ]_vars

\* The keys of an agent's records.
KeysOf(db, agent) == {k \in DOMAIN db : k[1] = agent}

\* C30: the Store isolates agents: get_all_skills(a) and get_agent_stats(a)
\* cover exactly the records whose agent_name is a; save_skill and
\* delete_skill for (a, n) leave every record of any other agent
\* unchanged; delete_skill returns true exactly when a record with that key
\* existed, and afterwards the key has no record, so that get_skill
\* returns nothing for it.
C30_AgentsIsolated ==
  [][ /\ sret'.op = "get_all_skills" =>
           /\ {<<sret'.value[i].agent_name, sret'.value[i].skill_name>> :
                 i \in DOMAIN sret'.value} = KeysOf(sdb, sret'.agent)
           /\ Len(sret'.value) = Cardinality(KeysOf(sdb, sret'.agent))
      /\ sret'.op = "get_agent_stats" =>
           /\ sret'.value[1].total_skills = Cardinality(KeysOf(sdb, sret'.agent))
           /\ \A c \in Categories :
                LET n == Cardinality({k \in KeysOf(sdb, sret'.agent) : sdb[k].category = c})
                IN  IF n = 0 THEN c \notin DOMAIN sret'.value[1].by_category
                    ELSE /\ c \in DOMAIN sret'.value[1].by_category
                         /\ sret'.value[1].by_category[c] = n
      /\ sret'.op \in {"save_skill", "delete_skill"} =>
           \A k \in (DOMAIN sdb) \cup (DOMAIN sdb') :
              k[1] # sret'.agent =>
                (k \in DOMAIN sdb /\ k \in DOMAIN sdb' /\ sdb'[k] = sdb[k])
      /\ sret'.op = "delete_skill" =>
           /\ sret'.value = << (<<sret'.agent, sret'.name>> \in DOMAIN sdb) >>
           /\ <<sret'.agent, sret'.name>> \notin DOMAIN sdb'
      /\ sret'.op = "get_skill" =>
           ((sret'.value = << >>) <=> (<<sret'.agent, sret'.name>> \notin DOMAIN sdb)) ]_vars

\* Both agents hold a skill f; this agent's f has just been deleted and
\* the other agent's f is still there.
C30_Witness ==
  /\ sret.op = "delete_skill"
  /\ sret.agent = Agent /\ sret.name = "f"
  /\ sret.value = <<TRUE>>
  /\ <<OtherAgent, "f">> \in DOMAIN sdb
  /\ <<Agent, "f">> \notin DOMAIN sdb

\* ======================================================================
\* The Skill Manager and its per-skill failures
\* ======================================================================
\* Two pieces of code: one without a dispatch call and one that calls
\* mcp_call('a', 'x', {}).
CodePlain == <<Line("other", "", FALSE, NoArg, NoArg)>>
CodeCall == <<Line("call", "", FALSE, Arg("sq", "a"), Arg("sq", "x"))>>

\* The values given as tags are written as Python writes them: None (no
\* tags), ['u'] (a list of strings), [1] (a list of numbers), {'u'} (a set).
\* tags or []
TagsOrEmpty(tags) == IF tags = "None" THEN "[]" ELSE tags

\* if tags:
TagsTruthy(tags) == tags \notin {"None", "[]"}

\* ', '.join(tags) raises TypeError on an item that is no string.
JoinRaises(tags) == tags = "[1]"

\* json.dumps raises TypeError on a set.
DumpsRaises(tags) == tags = "{'u'}"

\* metadata = {"tags": tags or [], "description": self._extract_docstring(code)}
\* A dictionary is the sequence of its (key, value) pairs.
BuildMetadata(tags) ==
  PyValue("dict", << <<"tags", TagsOrEmpty(tags)>>, <<"description", "">> >>)

\* metadata.get(key, default)
DictGet(value, key, default) ==
  IF \E i \in DOMAIN value.items : value.items[i][1] = key
    THEN value.items[CHOOSE i \in DOMAIN value.items : value.items[i][1] = key][2]
    ELSE default

\* A skill directory: the code of main.py (<< >> before it is written),
\* whether README.md exists, and the sidecar .meta.json: missing, text
\* that is no JSON, or the JSON object written by _write_to_filesystem
\* (tags is "" when the object has no such key).
Sidecar(state, name, category, dependencies, tags) ==
  [state |-> state, name |-> name, category |-> category,
   dependencies |-> dependencies, tags |-> tags]
NoSidecar == Sidecar("missing", "", "", << >>, "")
CorruptSidecar == Sidecar("corrupt", "", "", << >>, "")
NewDir == [code |-> << >>, readme |-> FALSE, meta |-> NoSidecar]

\* dependencies = dependencies or [] ; metadata = metadata or {}
OrEmptyList(value) == IF PyTruthy(value) THEN value ELSE PyValue("list", << >>)
OrEmptyDict(value) == IF PyTruthy(value) THEN value ELSE PyValue("dict", << >>)

\* Where _write_to_filesystem raises for the metadata it is given, and
\* what: metadata.get on a value that is no dictionary and the join of the
\* README raise after main.py is written, json.dumps of the sidecar after
\* README.md is written.
WriteError(metadata) ==
  LET md == OrEmptyDict(metadata)
      tags == IF md.type = "dict" THEN DictGet(md, "tags", "[]") ELSE ""
  IN  IF md.type # "dict" THEN [stage |-> "readme", type |-> "AttributeError"]
      ELSE IF TagsTruthy(tags) /\ JoinRaises(tags)
        THEN [stage |-> "readme", type |-> "TypeError"]
      ELSE IF DumpsRaises(tags) THEN [stage |-> "sidecar", type |-> "TypeError"]
      ELSE [stage |-> "", type |-> ""]

\* _write_to_filesystem: mkdir, main.py, README.md, .meta.json, __init__.py
\* in this order, up to the statement that raises; files of an earlier
\* write that are not reached stay as they are.
WriteFiles(tree, name, category, code, dependencies, metadata) ==
  LET p == <<category, name>>
      old == IF p \in DOMAIN tree THEN tree[p] ELSE NewDir
      err == WriteError(metadata)
      md == OrEmptyDict(metadata)
      main == [old EXCEPT !.code = code]
      readme == IF err.stage = "readme" THEN main ELSE [main EXCEPT !.readme = TRUE]
      meta == IF err.stage # "" THEN readme
              ELSE [readme EXCEPT !.meta =
                      Sidecar("json", name, category, OrEmptyList(dependencies).items,
                              DictGet(md, "tags", ""))]
  IN  Put(tree, p, meta)

\* list_skills: one entry per skill directory of the scanned category
\* directories whose sidecar exists and parses; the entry is the sidecar's
\* object with the key path added.
ListableIfPresent(dir) == dir.meta.state # "missing"

Listable(dir) == dir.meta.state = "json"

RECURSIVE ListFrom(_, _)
ListFrom(tree, paths) ==
  IF paths = {} THEN << >>
  ELSE LET p == CHOOSE q \in paths :
                  \A r \in paths : \/ q = r
                                   \/ Rank(q[1]) < Rank(r[1])
                                   \/ (Rank(q[1]) = Rank(r[1]) /\ Rank(q[2]) < Rank(r[2]))
       IN  (IF Listable(tree[p])
              THEN <<[meta |-> tree[p].meta, path |-> p]>>
              ELSE << >>)
           \o ListFrom(tree, paths \ {p})

ListSkillDirs(tree, category) ==
  ListFrom(tree, {p \in DOMAIN tree : p[1] \in CategoryDirs(tree, category)})

\* hydrate_from_database passes skill.get('dependencies', []) on.
HydrateDependenciesRescan(skill) == PyValue("list", ExtractDependencies(skill.code))

HydrateDependencies(skill) == skill.dependencies

\* for skill in skills: self._write_to_filesystem(...) : the loop ends
\* with the first write that raises.
RECURSIVE HydrateLoop(_, _, _)
HydrateLoop(tree, skills, i) ==
  IF i > Len(skills) THEN [tree |-> tree, raised |-> ""]
  ELSE LET skill == skills[i]
           written == WriteFiles(tree, skill.skill_name, skill.category, skill.code,
                                 HydrateDependencies(skill), skill.metadata)
           err == WriteError(skill.metadata)
       IN  IF err.type # "" THEN [tree |-> written, raised |-> err.type]
           ELSE HydrateLoop(written, skills, i + 1)

\* The arguments save_skill is called with: code, name, category, tags,
\* persist_to_db.
SkillInputs ==
  { <<CodePlain, "f", "c", "['u']", TRUE>>,
    <<CodeCall, "f", "d", "None", TRUE>>,
    <<CodeCall, "g", "d", "[1]", TRUE>>,
    <<CodePlain, "g", "c", "{'u'}", TRUE>>,
    <<CodePlain, "g", "d", "None", FALSE>> }

\* What the database file holds when the manager is constructed.  Records
\* come from earlier sessions and from other users of the Store, which
\* takes any JSON value as metadata: a record of another agent, one with
\* both JSON columns NULL whose code has a dispatch call, one whose
\* dependencies differ from what its code calls, and one whose metadata
\* is a list.
OthersRecord == SaveArgs(OtherAgent, "g", "d", CodeCall, PyValue("list", <<<<"a", "x">>>>), PyNone)
NullRecord == SaveArgs(Agent, "g", "d", CodeCall, PyNone, PyNone)
GoodRecord ==
  SaveArgs(Agent, "h", "d", CodePlain, PyValue("list", <<<<"b", "y">>>>),
           PyValue("dict", << <<"tags", "['u']">>, <<"description", "">> >>))
ListRecord(name, category) ==
  SaveArgs(Agent, name, category, CodePlain, PyNone, PyValue("list", <<<<"b", "y">>>>))

RECURSIVE InsertAll(_, _)
InsertAll(db, records) ==
  IF records = << >> THEN db
  ELSE InsertAll(StoreInsert(db, Head(records), SeedTime), Tail(records))

SkillStores ==
  { InsertAll(<< >>, <<OthersRecord, NullRecord, GoodRecord>>),
    InsertAll(<< >>, <<OthersRecord, NullRecord, ListRecord("f", "c")>>) }

\* What the skills directory holds then: a directory whose sidecar is no
\* JSON and one that is a skill of an earlier session.
SkillTrees ==
  { Put(Put(EmptyTree, <<"d", "f">>,
            [code |-> CodePlain, readme |-> TRUE, meta |-> CorruptSidecar]),
        <<"d", "g">>,
        [code |-> CodePlain, readme |-> TRUE,
         meta |-> Sidecar("json", "g", "d", << >>, "[]")]) }

\* The time of the session's durable writes; the timestamps of the
\* records are not followed here.
SessionTime == 1

\* A scheduled durable write (_persist_to_database): its position, the
\* arguments of SkillsDatabase.save_skill and its locals.
DurableWrite(args) ==
  [st |-> "scheduled", args |-> args, now |-> 0, existing |-> FALSE]

\* asyncio.create_task succeeds when a loop is running in the caller's
\* thread; otherwise it raises RuntimeError and a daemon thread is started.
ScheduleVia(loop_running) == IF loop_running THEN "task" ELSE "thread"

\* The durable write is reached when the filesystem write has returned and
\* persist_to_db is set.
SchedulesNoMatterWhat(raised, persist_to_db) == persist_to_db

SchedulesDurableWrite(raised, persist_to_db) == raised = "" /\ persist_to_db

InitSkills ==
  /\ ManagerAtRest
  /\ use_docker = FALSE
  /\ docker_available = FALSE
  /\ telemetry = FALSE
  /\ ExecutorAtRest
  /\ RuntimeAtRest
  /\ ScanAtRest
  /\ StoreAtRest
  /\ ApiAtRest
  /\ HookAtRest
  /\ ktree \in SkillTrees
  /\ kstore \in SkillStores
  /\ ktasks = << >>
  /\ kret = NoOutcome

\* SkillManager.save_skill, called with or without a running event loop.
\* The outcome tells what the call started for the durable write: a task,
\* a thread, or nothing.
SaveSkillCall(input, loop_running) ==
  /\ Len(ktasks) < MaxSkillSaves
  /\ LET code == input[1]
         name == input[2]
         category == input[3]
         dependencies == PyValue("list", ExtractDependencies(code))
         metadata == BuildMetadata(input[4])
         raised == WriteError(metadata).type
     IN  /\ ktree' = WriteFiles(ktree, name, category, code, dependencies, metadata)
         /\ ktasks' = IF SchedulesDurableWrite(raised, input[5])
                        THEN Append(ktasks,
                                    DurableWrite(SaveArgs(Agent, name, category, code,
                                                          dependencies, metadata)))
                        ELSE ktasks
         /\ kret' = Outcome("save_skill", <<input, loop_running>>, raised,
                            IF SchedulesDurableWrite(raised, input[5])
                              THEN <<ScheduleVia(loop_running)>> ELSE << >>)
  /\ UNCHANGED kstore
  /\ UNCHANGED nonSkillsVars

\* _persist_to_database up to the branch of SkillsDatabase.save_skill:
\* now = datetime.utcnow(), existing = await self.get_skill(...).
PersistCheck(t) ==
  /\ t \in DOMAIN ktasks
  /\ ktasks[t].st = "scheduled"
  /\ ktasks' = [ktasks EXCEPT ![t].st = "checked", ![t].now = SessionTime,
                              ![t].existing =
                                 <<Agent, ktasks[t].args.name>> \in DOMAIN kstore]
  /\ kret' = NoOutcome
  /\ UNCHANGED <<ktree, kstore>>
  /\ UNCHANGED nonSkillsVars

\* The UPDATE or the INSERT, and the commit.  An INSERT on a key another
\* write has inserted since the check raises IntegrityError, which the
\* except clause of _persist_to_database logs.
PersistCommit(t) ==
  /\ t \in DOMAIN ktasks
  /\ ktasks[t].st = "checked"
  /\ LET args == ktasks[t].args
         conflict == ~ktasks[t].existing /\ <<Agent, args.name>> \in DOMAIN kstore
     IN  /\ kstore' = IF ktasks[t].existing THEN StoreUpdate(kstore, args, ktasks[t].now)
                      ELSE IF conflict THEN kstore
                      ELSE StoreInsert(kstore, args, ktasks[t].now)
         /\ ktasks' = [ktasks EXCEPT ![t].st = IF conflict THEN "failed" ELSE "done",
                                     ![t].now = 0, ![t].existing = FALSE]
  /\ kret' = NoOutcome
  /\ UNCHANGED ktree
  /\ UNCHANGED nonSkillsVars

\* hydrate_from_database: the tree is removed, the agent's records are
\* read and written one after the other; len(skills) is returned.
HydrateCall ==
  /\ LET skills == StoreGetAll(kstore, Agent)
         loop == HydrateLoop(EmptyTree, skills, 1)
     IN  /\ ktree' = loop.tree
         /\ kret' = Outcome("hydrate_from_database", skills, loop.raised,
                            IF loop.raised = "" THEN <<Len(skills)>> ELSE << >>)
  /\ UNCHANGED <<kstore, ktasks>>
  /\ UNCHANGED nonSkillsVars

ListSkillDirsCall(category) ==
  /\ kret' = Outcome("list_skills", <<category>>, "", ListSkillDirs(ktree, category))
  /\ UNCHANGED <<ktree, kstore, ktasks>>
  /\ UNCHANGED nonSkillsVars

NextSkills ==
  \/ \E input \in SkillInputs, loop_running \in BOOLEAN : SaveSkillCall(input, loop_running)
  \/ \E t \in 1..MaxSkillSaves : PersistCheck(t)
  \/ \E t \in 1..MaxSkillSaves : PersistCommit(t)
  \/ HydrateCall
  \/ \E category \in Categories \cup {NoCategory} : ListSkillDirsCall(category)

SpecSkills == InitSkills /\ [][NextSkills]_vars

\* save_skill and its durable writes alone, with the event loop and the
\* worker threads running: a scheduled durable write takes its steps.
NextSaves ==
  \/ \E input \in SkillInputs, loop_running \in BOOLEAN : SaveSkillCall(input, loop_running)
  \/ \E t \in 1..MaxSkillSaves : PersistCheck(t)
  \/ \E t \in 1..MaxSkillSaves : PersistCommit(t)

SpecSaves ==
  /\ InitSkills
  /\ [][NextSaves]_vars
  /\ \A t \in 1..MaxSkillSaves :
       WF_vars(PersistCheck(t)) /\ WF_vars(PersistCommit(t))

\* ----------------------------------------------------------------------
\* Claims about the Skill Manager (checked under SpecSkills, SpecSaves)
\* ----------------------------------------------------------------------
\* The save_skill call that has just ended: its arguments.
SavedInput == kret.args[1]
SavedLoopRunning == kret.args[2]

\* The Store holds a record for the key of durable write t with the
\* category and code it was scheduled with.
Persisted(t) ==
  LET args == ktasks[t].args
  IN  /\ <<Agent, args.name>> \in DOMAIN kstore
      /\ kstore[<<Agent, args.name>>].category = args.category
      /\ kstore[<<Agent, args.name>>].code = args.code

\* A save_skill step: the call returns or raises in it.
SaveSkillStep == kret'.op = "save_skill"

\* C33: save_skill with persist_to_db = true schedules exactly one durable
\* write per call and returns without waiting for it, as a task when an
\* event loop drives the caller and on a worker thread otherwise; and if
\* the process keeps running, the Store eventually holds a record for
\* (agent, name) with the saved category and code.
C33_SchedulesOneWriteThatLands ==
  /\ [][ (SaveSkillStep /\ kret'.raised = "" /\ kret'.args[1][5]) =>
           /\ Len(ktasks') = Len(ktasks) + 1
           /\ \A t \in DOMAIN ktasks : ktasks'[t] = ktasks[t]
           /\ ktasks'[Len(ktasks')].st = "scheduled"
           /\ kret'.value = <<IF kret'.args[2] THEN "task" ELSE "thread">>
           /\ ktasks'[Len(ktasks')].args.name = kret'.args[1][2]
           /\ kstore' = kstore ]_vars
  /\ \A t \in 1..MaxSkillSaves :
       (t \in DOMAIN ktasks /\ ktasks[t].st = "scheduled") ~> (t \in DOMAIN ktasks /\ Persisted(t))

\* The entries a list_skills call has returned, and their paths.
ListedPaths == {kret.value[i].path : i \in DOMAIN kret.value}

\* C31: list_skills enumerates the filesystem tree, not the Store: it
\* returns one entry for every skill directory with a readable sidecar, of
\* the given category when one is given, with the sidecar's content;
\* directories whose sidecar is missing or unreadable are skipped and the
\* listing does not fail; a skill that is only in the Store is not listed;
\* a category that does not exist gives the empty list.
C31_ListsReadableDirectories ==
  kret.op = "list_skills" =>
    LET category == kret.args[1]
        readable == {p \in DOMAIN ktree :
                       /\ ktree[p].meta.state = "json"
                       /\ category # NoCategory => p[1] = category}
    IN  /\ kret.raised = ""
        /\ ListedPaths = readable
        /\ Len(kret.value) = Cardinality(readable)
        /\ \A i \in DOMAIN kret.value :
             kret.value[i].meta = ktree[kret.value[i].path].meta
        /\ (category # NoCategory /\ ~\E p \in DOMAIN ktree : p[1] = category)
             => kret.value = << >>

\* A listing of the whole tree that has an entry, while one directory has
\* no sidecar, one has a sidecar that is no JSON, and the Store holds a
\* skill of the agent that has no directory.
C31_Witness ==
  /\ kret.op = "list_skills"
  /\ kret.args[1] = NoCategory
  /\ kret.value # << >>
  /\ \E p \in DOMAIN ktree : ktree[p].meta.state = "missing"
  /\ \E p \in DOMAIN ktree : ktree[p].meta.state = "corrupt"
  /\ \E k \in DOMAIN kstore :
       k[1] = Agent /\ <<kstore[k].category, k[2]>> \notin DOMAIN ktree

\* Record `skill` of the Store is materialized in the tree: its directory
\* holds its code and a sidecar written for it.
Materialized(skill) ==
  LET p == <<skill.category, skill.skill_name>>
  IN  /\ p \in DOMAIN ktree
      /\ ktree[p].code = skill.code
      /\ ktree[p].meta.state = "json"
      /\ ktree[p].meta.name = skill.skill_name

\* The records a hydrate_from_database call has read.
Hydrated == kret.args

\* C32: hydration isolates per-skill failures: when materializing one
\* record fails, every other record of the agent is still written to the
\* filesystem.
C32_HydrationIsolatesFailures ==
  kret.op = "hydrate_from_database" =>
    \A i \in DOMAIN Hydrated :
      WriteError(Hydrated[i].metadata).type = "" => Materialized(Hydrated[i])

\* The dependency list and the tags a sidecar written from the record's
\* stored fields holds; null fields are empty.
StoredDependencies(skill) ==
  IF skill.dependencies = PyNone THEN << >> ELSE skill.dependencies.items
StoredTags(skill) ==
  IF skill.metadata = PyNone THEN "" ELSE DictGet(skill.metadata, "tags", "")

C37_FailedSaveSchedulesNothing ==
  [][ /\ (SaveSkillStep /\ WriteError(BuildMetadata(kret'.args[1][4])).type # "") =>
           /\ kret'.raised = WriteError(BuildMetadata(kret'.args[1][4])).type
           /\ ktasks' = ktasks
           /\ kstore' = kstore
      /\ \A t \in DOMAIN ktasks' : WriteError(ktasks'[t].args.metadata).type = ""
      /\ kstore' # kstore =>
           \E t \in DOMAIN ktasks :
              /\ ktasks[t].st = "checked" /\ ktasks'[t].st = "done"
              /\ \A k \in DOMAIN kstore' :
                   (k \notin DOMAIN kstore \/ kstore'[k] # kstore[k])
                     => k = <<Agent, ktasks[t].args.name>> ]_vars

\* A save_skill call that asked for the durable write has raised after
\* main.py was written, and no durable write is scheduled.
C37_Witness ==
  /\ kret.op = "save_skill"
  /\ kret.raised = "TypeError"
  /\ kret.args[1][5]
  /\ ktree[<<kret.args[1][3], kret.args[1][2]>>].code = kret.args[1][1]
  /\ ktasks = << >>

\* ----------------------------------------------------------------------
\* The global hook of the Routing Runtime (runtime.py: _runtime_instance,
\* mcp_call, MCPRuntime.__init__): specification SpecHook
\* ----------------------------------------------------------------------
\* The servers a runtime can have registered.
HookServers == {"s", "t"}

\* What runtime i's call(server, tool, params) does: ValueError when the
\* server is not registered, RuntimeError when there is no event loop,
\* else what the session of that runtime answers (ok) or raises.
InstanceCall(i, server, ok) ==
  IF server \notin gservers[i] THEN [raised |-> "ValueError", value |-> << >>]
  ELSE IF ~gloop[i] THEN [raised |-> "RuntimeError: Event loop not initialized", value |-> << >>]
  ELSE IF ~ok THEN [raised |-> "Exception", value |-> << >>]
  ELSE [raised |-> "", value |-> <<i, server>>]

\* _setup_global_instance as it would be if an installed hook were kept.
SetupGlobalInstanceOnce(i) == IF ghook = 0 THEN i ELSE ghook

\* _setup_global_instance: _runtime_instance = self
SetupGlobalInstance(i) == i

InitHook ==
  /\ ManagerAtRest
  /\ use_docker = FALSE
  /\ docker_available = FALSE
  /\ telemetry = FALSE
  /\ ExecutorAtRest
  /\ RuntimeAtRest
  /\ ScanAtRest
  /\ StoreAtRest
  /\ SkillsAtRest
  /\ ApiAtRest
  /\ HookAtRest

\* MCPRuntime(): no servers, no event loop, and the hook installed.
NewRuntime ==
  /\ ginst < MaxRuntimes
  /\ ginst' = ginst + 1
  /\ gservers' = Append(gservers, {})
  /\ gloop' = Append(gloop, FALSE)
  /\ ghook' = SetupGlobalInstance(ginst + 1)
  /\ gret' = Outcome("MCPRuntime", <<ginst + 1>>, "", << >>)
  /\ UNCHANGED nonHookVars

\* runtime i.register_servers(connections)
HookRegister(i, S) ==
  /\ i \in 1..ginst
  /\ gservers' = [gservers EXCEPT ![i] = S]
  /\ gloop' = [gloop EXCEPT ![i] = TRUE]
  /\ gret' = Outcome("register_servers", <<i>>, "", << >>)
  /\ UNCHANGED <<ginst, ghook>>
  /\ UNCHANGED nonHookVars

\* runtime i.clear()
HookClear(i) ==
  /\ i \in 1..ginst
  /\ gservers' = [gservers EXCEPT ![i] = {}]
  /\ gloop' = [gloop EXCEPT ![i] = FALSE]
  /\ gret' = Outcome("clear", <<i>>, "", << >>)
  /\ UNCHANGED <<ginst, ghook>>
  /\ UNCHANGED nonHookVars

\* mcp_call(server, tool, params)
McpCallHook(server, ok) ==
  /\ LET out == IF ghook = 0
                THEN [raised |-> "RuntimeError: MCP Runtime not initialized", value |-> << >>]
                ELSE InstanceCall(ghook, server, ok)
     IN gret' = Outcome("mcp_call", <<server, ok>>, out.raised, out.value)
  /\ UNCHANGED <<ginst, ghook, gservers, gloop>>
  /\ UNCHANGED nonHookVars

NextHook ==
  \/ NewRuntime
  \/ \E i \in 1..MaxRuntimes, S \in SUBSET HookServers : HookRegister(i, S)
  \/ \E i \in 1..MaxRuntimes : HookClear(i)
  \/ \E server \in HookServers, ok \in BOOLEAN : McpCallHook(server, ok)

SpecHook == InitHook /\ [][NextHook]_vars

\* ----------------------------------------------------------------------
\* Claims about the global hook (checked under SpecHook)
\* ----------------------------------------------------------------------
\* C36: mcp_call fails with RuntimeError("MCP Runtime not initialized") if
\* and only if no runtime has been installed as the global hook (none was
\* constructed); otherwise its outcome is exactly the outcome of the call of
\* the most recently constructed runtime for the same arguments, whatever
\* the earlier runtimes have registered; and clear() on a runtime leaves
\* the hook installed.
C36_HookIsLatestRuntime ==
  [][ /\ gret'.op = "mcp_call" =>
          /\ (gret'.raised = "RuntimeError: MCP Runtime not initialized") <=> (ginst = 0)
          /\ ginst > 0 =>
               LET out == InstanceCall(ginst, gret'.args[1], gret'.args[2])
               IN gret'.raised = out.raised /\ gret'.value = out.value
      /\ gret'.op = "clear" => (ghook' = ghook /\ ghook' # 0)
    ]_vars

\* A second runtime was constructed, only the first has server "s"
\* registered, and mcp_call("s", ...) failed with the second's ValueError.
C36_Witness ==
  /\ ginst = 2
  /\ "s" \in gservers[1] /\ gloop[1]
  /\ "s" \notin gservers[2]
  /\ gret.op = "mcp_call" /\ gret.args[1] = "s"
  /\ gret.raised = "ValueError"

\* ----------------------------------------------------------------------
\* MCPApi start/stop and the connector it drives (framework.py,
\* connector.py): specifications SpecApi and SpecLibraries
\* ----------------------------------------------------------------------
\* The names given to add_mcp_server.
ApiServers == {"s", "t"}

\* A session is the pair <<n, server>>: the one opened for that server by
\* the n-th connect_all.
SessionsOf(n, open) == {x \in open : x[1] = n}

\* runtime.servers: the runtime's own empty dict until register_servers
\* replaces it by the connector's dict, the same object from then on.
RuntimeServers == IF ashared THEN aconnections ELSE {}

\* connector.connect_all(): a new exit stack replaces the previous one, then
\* for each registered server in order its transport and session enter the
\* stack, the session is initialized and put in connections. Server number
\* fail_at (0: none) raises, which ends the loop and is raised again;
\* entered says whether that server's session had entered the stack.
ConnectorConnectAll(fail_at, entered) ==
  LET n == aepoch + 1
      fails == fail_at \in 1..Len(aservers)
      upto == IF fails THEN fail_at - 1 ELSE Len(aservers)
      done == {<<n, aservers[i]>> : i \in 1..upto}
      half == IF fails /\ entered THEN {<<n, aservers[fail_at]>>} ELSE {}
  IN [connections |-> {c \in aconnections : \A x \in done : x[2] # c[2]} \cup done,
      stack |-> [present |-> TRUE, entered |-> done \cup half],
      sessions |-> asessions \cup done \cup half,
      raised |-> IF fails THEN "ConnectError" ELSE ""]

\* connector.disconnect_all() as it would be if it ignored the exit stack.
ConnectorDisconnectAllKeepOpen(connections, stack, sessions, ok) ==
  [connections |-> {}, stack |-> NoStack, sessions |-> sessions, raised |-> ""]

\* connector.disconnect_all(): the exit stack, if there is one, is unwound,
\* which closes every session entered in it; if the unwinding raises (~ok)
\* the exception leaves disconnect_all before connections is cleared and
\* the stack dropped.
ConnectorDisconnectAll(connections, stack, sessions, ok) ==
  IF stack.present /\ stack.entered # {} /\ ~ok
  THEN [connections |-> connections,
        stack |-> [present |-> TRUE, entered |-> {}],
        sessions |-> sessions \ stack.entered,
        raised |-> "DisconnectError"]
  ELSE [connections |-> {}, stack |-> NoStack,
        sessions |-> IF stack.present THEN sessions \ stack.entered ELSE sessions,
        raised |-> ""]

InitApi ==
  /\ ManagerAtRest
  /\ use_docker = FALSE
  /\ docker_available = FALSE
  /\ telemetry = FALSE
  /\ ExecutorAtRest
  /\ RuntimeAtRest
  /\ ScanAtRest
  /\ StoreAtRest
  /\ SkillsAtRest
  /\ HookAtRest
  /\ ApiAtRest

\* api.add_mcp_server(name, command)
AddMcpServer(name) ==
  /\ aservers' = IF \E i \in 1..Len(aservers) : aservers[i] = name
                 THEN aservers ELSE Append(aservers, name)
  /\ aret' = Outcome("add_mcp_server", <<name>>, "", << >>)
  /\ UNCHANGED <<astarted, aconnections, astack, asessions, aepoch, ashared, aloop, alog>>
  /\ UNCHANGED nonApiVars

\* api.start()
Start(fail_at, entered) ==
  /\ astarted \/ aepoch < MaxConnects
  /\ IF astarted
     THEN /\ aret' = Outcome("start", << >>, "", << >>)
          /\ UNCHANGED <<astarted, aconnections, astack, asessions, aepoch, ashared, aloop, alog>>
     ELSE LET c == ConnectorConnectAll(fail_at, entered)
          IN /\ aepoch' = aepoch + 1
             /\ alog' = Append(alog, "connect_all")
             /\ aconnections' = c.connections
             /\ astack' = c.stack
             /\ asessions' = c.sessions
             /\ aret' = Outcome("start", << >>, c.raised, << >>)
             /\ IF c.raised # ""
                THEN UNCHANGED <<astarted, ashared, aloop>>
                ELSE /\ ashared' = TRUE
                     /\ aloop' = TRUE
                     /\ astarted' = TRUE
  /\ UNCHANGED aservers
  /\ UNCHANGED nonApiVars

\* api.stop()
Stop(ok) ==
  /\ ~astarted \/ Len(alog) < 2 * MaxConnects
  /\ IF ~astarted
     THEN /\ aret' = Outcome("stop", << >>, "", << >>)
          /\ UNCHANGED <<astarted, aconnections, astack, asessions, ashared, aloop, alog>>
     ELSE LET d == ConnectorDisconnectAll(aconnections, astack, asessions, ok)
          IN /\ alog' = Append(alog, "disconnect_all")
             /\ astack' = d.stack
             /\ asessions' = d.sessions
             /\ aret' = Outcome("stop", << >>, d.raised, << >>)
             /\ IF d.raised # ""
                THEN /\ aconnections' = d.connections
                     /\ UNCHANGED <<astarted, aloop>>
                ELSE /\ aconnections' = {}
                     /\ aloop' = FALSE
                     /\ astarted' = FALSE
             /\ UNCHANGED ashared
  /\ UNCHANGED <<aservers, aepoch>>
  /\ UNCHANGED nonApiVars

\* api.generate_libraries(): connect_all, generate_apis, disconnect_all, one
\* after the other; gen_ok says whether generate_apis returns.
GenerateLibraries(fail_at, entered, gen_ok, ok) ==
  /\ aepoch < MaxConnects
  /\ LET c == ConnectorConnectAll(fail_at, entered)
         d == ConnectorDisconnectAll(c.connections, c.stack, c.sessions, ok)
         raised == IF c.raised # "" THEN c.raised
                   ELSE IF ~gen_ok THEN "GenerationError"
                   ELSE d.raised
         r == IF c.raised # "" \/ ~gen_ok THEN c ELSE d
     IN /\ aepoch' = aepoch + 1
        /\ aconnections' = r.connections
        /\ astack' = r.stack
        /\ asessions' = r.sessions
        /\ aret' = Outcome("generate_libraries", << >>, raised, << >>)
  /\ UNCHANGED <<astarted, aservers, ashared, aloop, alog>>
  /\ UNCHANGED nonApiVars

NextApi ==
  \/ \E name \in ApiServers : AddMcpServer(name)
  \/ \E fail_at \in 0..Cardinality(ApiServers), entered \in BOOLEAN : Start(fail_at, entered)
  \/ \E ok \in BOOLEAN : Stop(ok)

SpecApi == InitApi /\ [][NextApi]_vars

NextLibraries ==
  \/ NextApi
  \/ \E fail_at \in 0..Cardinality(ApiServers), entered, gen_ok, ok \in BOOLEAN :
       GenerateLibraries(fail_at, entered, gen_ok, ok)

SpecLibraries == InitApi /\ [][NextLibraries]_vars

\* ----------------------------------------------------------------------
\* Claims about MCPApi start/stop (checked under SpecApi, SpecLibraries)
\* ----------------------------------------------------------------------
\* What start and stop can change.
LifecycleState == <<astarted, aconnections, astack, asessions, aepoch, ashared, aloop, alog>>

\* The connect_all and disconnect_all calls made so far by start and stop
\* alternate, beginning with connect_all.
Alternates ==
  \A i \in 1..Len(alog) :
    alog[i] = IF i % 2 = 1 THEN "connect_all" ELSE "disconnect_all"

\* C35: across any sequence of start and stop calls, start while started
\* and stop while not started change nothing; the connect_all and
\* disconnect_all calls made by start and stop strictly alternate,
\* beginning with connect_all; _started is true exactly between a
\* successful start and the next stop; and after stop the runtime has no
\* connections and no execution context.
C35_StartStopAlternate ==
  /\ [][ /\ (aret'.op = "start" /\ astarted) => UNCHANGED LifecycleState
         /\ (aret'.op = "stop" /\ ~astarted) => UNCHANGED LifecycleState
         /\ aret'.op = "start" => (astarted' <=> (astarted \/ aret'.raised = ""))
         /\ aret'.op = "stop" => (~astarted' /\ RuntimeServers' = {} /\ ~aloop')
         /\ aret'.op \notin {"start", "stop"} => astarted' = astarted
       ]_vars
  /\ []Alternates

\* C38: when start() fails because connecting to one of the servers raised,
\* the sessions opened in that start() are closed when it raises, or else
\* the stop() that follows closes them and empties the connector's
\* connection map; and when generate_libraries raises because generation
\* raised, no session it opened stays open and the map is empty.
C38_FailedStartLeavesNothingOpen ==
  [][ /\ (aret.op = "start" /\ aret.raised # "" /\ aret'.op = "stop") =>
           (SessionsOf(aepoch, asessions') = {} /\ aconnections' = {})
      /\ (aret'.op = "generate_libraries" /\ aret'.raised = "GenerationError") =>
           (SessionsOf(aepoch', asessions') = {} /\ aconnections' = {})
    ]_vars
====
